---------------------------- MODULE Spec2Model ----------------------------
(***************************************************************************)
(* A model of the lazylang compiler pipeline: the indentation-sensitive    *)
(* lexer, the semantic analyzer and the C code generator.                  *)
(*                                                                         *)
(* The source buffer is a TLA+ string; a byte is a one-character string.   *)
(* The terminating zero byte of the buffer is written NUL.                 *)
(***************************************************************************)
EXTENDS Integers, Sequences, FiniteSets, TLC

VARIABLES
    src,        \* the source buffer (without its terminating NUL)
    beyond,     \* the bytes that lie behind the buffer's NUL
    lx,         \* struct Lexer
    toks,       \* the tokens lexer_next_token has returned so far
    lstatus,    \* "idle" | "run" | "eof" | "error": the lexer's position
    lexerr,     \* what the lexer printed before exit(1), or NoErr
    decls,      \* program->declarations: the function declarations
    sx,         \* SemaContext, with the diagnostic sema_error printed
    sctl,       \* where sema_check_program is in the program
    sstmt,      \* the parameter or statement sema checked last
    ftypes,     \* the type names sema has met in the current function
    cx,         \* CodegenContext, with the C file its writer has written
    cctl,       \* where cg_emit_program is in the program
    cstmt       \* what codegen emitted last, and the lines it was given

lexvars == <<src, beyond, lx, toks, lstatus, lexerr>>

semavars == <<decls, sx, sctl, sstmt, ftypes>>

cgvars == <<cx, cctl, cstmt>>

vars == <<src, beyond, lx, toks, lstatus, lexerr, decls, sx, sctl, sstmt, ftypes,
          cx, cctl, cstmt>>

-----------------------------------------------------------------------------
(* Bounds of the model *)

\* the longest source the lexer specification draws
MaxSrcLen == 6
\* the number of bytes behind the buffer that may hold anything; further
\* bytes read as zero
MaxBeyond == 1

\* the characters the sources of the lexer specification are made of
LexAlphabet == {" ", "\n", "x"}

-----------------------------------------------------------------------------
(* Bytes *)

NUL == "NUL"

\* a pointer that is NULL, a node that is absent
NULL == [kind |-> "NULL"]

\* a diagnostic is its message with the line and the column it prints (0
\* for a number the message does not print)
NoErr == [msg |-> "none", line |-> 0, col |-> 0]

Letters ==
    {"a","b","c","d","e","f","g","h","i","j","k","l","m",
     "n","o","p","q","r","s","t","u","v","w","x","y","z",
     "A","B","C","D","E","F","G","H","I","J","K","L","M",
     "N","O","P","Q","R","S","T","U","V","W","X","Y","Z"}

Digits == {"0","1","2","3","4","5","6","7","8","9"}

isalpha(c) == c \in Letters

isdigit(c) == c \in Digits

isalnum(c) == isalpha(c) \/ isdigit(c)

\* src[p] as C reads it: the buffer, its NUL, then whatever lies behind it
ByteAt(p) ==
    IF p < Len(src) THEN SubSeq(src, p + 1, p + 1)
    ELSE IF p = Len(src) THEN NUL
    ELSE IF p - Len(src) <= Len(beyond) THEN beyond[p - Len(src)]
    ELSE NUL

\* the part of src[start .. start+len-1] that lies inside the buffer
RECURSIVE TextAt(_, _)
TextAt(start, len) ==
    IF len = 0 \/ start >= Len(src) THEN ""
    ELSE ByteAt(start) \o TextAt(start + 1, len - 1)

-----------------------------------------------------------------------------
(* The stages that a specification leaves out stand still *)

LexIdle ==
    /\ src = ""
    /\ beyond = <<>>
    /\ lx = NULL
    /\ toks = <<>>
    /\ lstatus = "idle"
    /\ lexerr = NoErr

SemaIdle ==
    /\ decls = <<>>
    /\ sx = NULL
    /\ sctl = NULL
    /\ sstmt = NULL
    /\ ftypes = {}

CgIdle ==
    /\ cx = NULL
    /\ cctl = NULL
    /\ cstmt = NULL

-----------------------------------------------------------------------------
(* The lexer *)

peek(l) == ByteAt(l.pos)

advance(l) ==
    [l EXCEPT !.pos = l.pos + 1,
              !.line = IF peek(l) = "\n" THEN l.line + 1 ELSE l.line,
              !.col = IF peek(l) = "\n" THEN 1 ELSE l.col + 1]

match(l, expected) == IF peek(l) # expected THEN l ELSE advance(l)

make_token(l, type, lexeme, len) ==
    [type |-> type, lexeme |-> lexeme, length |-> len,
     line |-> l.line, column |-> l.col]

lexer_create ==
    [pos |-> 0, line |-> 1, col |-> 1,
     indent_stack |-> <<0>>, indent_top |-> 0,
     pending_dedents |-> 0, at_line_start |-> TRUE]

\* what one call of lexer_next_token leaves: the lexer, and the token it
\* returned or the message it printed before exit(1)
Returned(l, tok) == [lx |-> l, tok |-> tok, err |-> NoErr]

Exited(l, msg, line, col) ==
    [lx |-> l, tok |-> [type |-> "NONE"],
     err |-> [msg |-> msg, line |-> line, col |-> col]]

\* the while loop of count_indent in closed form: the spaces and tabs at
\* the read position are counted and passed; none of them is a line break,
\* so advance moves pos and col alike
count_indent(l) ==
    LET count == CHOOSE n \in 0 .. Len(src) + Len(beyond) + 1 :
                     /\ \A k \in 0 .. n - 1 : ByteAt(l.pos + k) \in {" ", "\t"}
                     /\ ByteAt(l.pos + n) \notin {" ", "\t"}
    IN  [lx |-> [l EXCEPT !.pos = l.pos + count, !.col = l.col + count],
         count |-> count]

Keyword(text) ==
    CASE text = "if" -> "IF"
      [] text = "else" -> "ELSE"
      [] text = "for" -> "FOR"
      [] text = "in" -> "IN"
      [] text = "struct" -> "STRUCT"
      [] text = "mut" -> "MUT"
      [] text = "pub" -> "PUB"
      [] text = "import" -> "IMPORT"
      [] text = "task" -> "TASK"
      [] text = "return" -> "RETURN"
      [] text = "true" -> "TRUE"
      [] text = "false" -> "FALSE"
      [] text = "null" -> "NULL"
      [] OTHER -> "IDENT"

RECURSIVE ident_loop(_)
ident_loop(l) ==
    IF isalnum(peek(l)) \/ peek(l) = "_" THEN ident_loop(advance(l)) ELSE l

identifier(l0) ==
    LET start == l0.pos - 1
        l == ident_loop(l0)
        len == l.pos - start
        text == TextAt(start, len)
    IN  Returned(l, make_token(l, Keyword(text), text, len))

RECURSIVE digit_loop(_)
digit_loop(l) == IF isdigit(peek(l)) THEN digit_loop(advance(l)) ELSE l

number(l0) ==
    LET start == l0.pos - 1
        l1 == digit_loop(l0)
    IN  IF peek(l1) = "."
        THEN LET l2 == digit_loop(advance(l1))
             IN  Returned(l2, make_token(l2, "FLOAT",
                              TextAt(start, l2.pos - start), l2.pos - start))
        ELSE Returned(l1, make_token(l1, "INT",
                              TextAt(start, l1.pos - start), l1.pos - start))

RECURSIVE string_loop(_)
string_loop(l) ==
    IF peek(l) # "\"" /\ peek(l) # NUL THEN string_loop(advance(l)) ELSE l

\* size_t arithmetic: unsigned, wrapping; the width is cut to 30 bits, which
\* TLC's integers can hold
SizeT(n) == n % (2 ^ 30)

string(l0) ==
    LET start == l0.pos
        l1 == string_loop(l0)
        l2 == IF peek(l1) = "\"" THEN advance(l1) ELSE l1
        len == SizeT(l2.pos - start - 1)
    IN  Returned(l2, make_token(l2, "STRING",
                         TextAt(start, IF len > Len(src) THEN Len(src) ELSE len),
                         len))

\* a dedent loop that forgets to queue the DEDENTs it owes
RECURSIVE pop_indents_unqueued(_, _)
pop_indents_unqueued(l, indent) ==
    IF l.indent_top > 0 /\ indent < l.indent_stack[l.indent_top + 1]
    THEN pop_indents_unqueued(
             [l EXCEPT !.indent_top = l.indent_top - 1,
                       !.indent_stack = SubSeq(l.indent_stack, 1, l.indent_top),
                       !.pending_dedents = 1],
             indent)
    ELSE l

\* a dedent branch that pops one entry at most
pop_indents_once(l, indent) ==
    IF l.indent_top > 0 /\ indent < l.indent_stack[l.indent_top + 1]
    THEN [l EXCEPT !.indent_top = l.indent_top - 1,
                   !.indent_stack = SubSeq(l.indent_stack, 1, l.indent_top),
                   !.pending_dedents = l.pending_dedents + 1]
    ELSE l

\* the while loop of the dedent branch
RECURSIVE pop_indents(_, _)
pop_indents(l, indent) ==
    IF l.indent_top > 0 /\ indent < l.indent_stack[l.indent_top + 1]
    THEN pop_indents([l EXCEPT !.indent_top = l.indent_top - 1,
                               !.indent_stack = SubSeq(l.indent_stack, 1, l.indent_top),
                               !.pending_dedents = l.pending_dedents + 1],
                     indent)
    ELSE l

\* an alignment test that accepts a width between two levels
misaligned_lenient(l, indent) == indent < l.indent_stack[l.indent_top + 1]

\* the test after the dedent loop: the width is no level of the stack
misaligned(l, indent) == indent # l.indent_stack[l.indent_top + 1]

symbol(l, c) ==
    CASE c = ":" -> Returned(l, make_token(l, "COLON", ":", 1))
      [] c = "," -> Returned(l, make_token(l, "COMMA", ",", 1))
      [] c = "=" ->
            IF peek(l) = "="
            THEN Returned(match(l, "="), make_token(match(l, "="), "EQEQ", "==", 2))
            ELSE Returned(l, make_token(l, "EQUAL", "=", 1))
      [] c = "-" ->
            IF peek(l) = ">"
            THEN Returned(match(l, ">"), make_token(match(l, ">"), "ARROW", "->", 2))
            ELSE Returned(l, make_token(l, "MINUS", "-", 1))
      [] c = "+" -> Returned(l, make_token(l, "PLUS", "+", 1))
      [] c = "*" -> Returned(l, make_token(l, "STAR", "*", 1))
      [] c = "/" -> Returned(l, make_token(l, "SLASH", "/", 1))
      [] c = "!" ->
            IF peek(l) = "="
            THEN Returned(match(l, "="), make_token(match(l, "="), "BANGEQ", "!=", 2))
            ELSE Exited(l, "Unexpected '!' at line %d, column %d", l.line, l.col)
      [] c = "<" ->
            IF peek(l) = "="
            THEN Returned(match(l, "="), make_token(match(l, "="), "LTE", "<=", 2))
            ELSE Returned(l, make_token(l, "LT", "<", 1))
      [] c = ">" ->
            IF peek(l) = "="
            THEN Returned(match(l, "="), make_token(match(l, "="), "GTE", ">=", 2))
            ELSE Returned(l, make_token(l, "GT", ">", 1))
      [] c = "(" -> Returned(l, make_token(l, "LPAREN", "(", 1))
      [] c = ")" -> Returned(l, make_token(l, "RPAREN", ")", 1))
      [] c = "." -> Returned(l, make_token(l, "DOT", ".", 1))
      [] c = "[" -> Returned(l, make_token(l, "LBRACKET", "[", 1))
      [] c = "]" -> Returned(l, make_token(l, "RBRACKET", "]", 1))

SymbolChars == {":", ",", "=", "-", "+", "*", "/", "!", "<", ">", "(", ")", ".", "[", "]"}

\* the for (;;) loop of lexer_next_token
RECURSIVE scan(_)
scan(l0) ==
    LET c == peek(l0)
        l == advance(l0)
    IN  CASE c = NUL ->
                IF l.indent_top > 0
                THEN LET l1 == [l EXCEPT !.indent_top = l.indent_top - 1,
                                         !.indent_stack = SubSeq(l.indent_stack, 1, l.indent_top)]
                     IN  Returned(l1, make_token(l1, "DEDENT", "", 0))
                ELSE Returned(l, make_token(l, "EOF", "", 0))
          [] c = " " \/ c = "\t" \/ c = "\r" -> scan(l)
          [] c = "\n" ->
                LET l1 == [l EXCEPT !.at_line_start = TRUE]
                IN  Returned(l1, make_token(l1, "NEWLINE", "\n", 1))
          [] isalpha(c) \/ c = "_" -> identifier(l)
          [] isdigit(c) -> number(l)
          [] c = "\"" -> string(l)
          [] c \in SymbolChars -> symbol(l, c)
          [] OTHER -> scan(l)

\* the line-start branch of lexer_next_token
line_start(l0) ==
    LET r == count_indent([l0 EXCEPT !.at_line_start = FALSE])
        l == r.lx
        indent == r.count
        current == l.indent_stack[l.indent_top + 1]
    IN  IF indent > current
        THEN LET l1 == [l EXCEPT !.indent_top = l.indent_top + 1,
                                 !.indent_stack = Append(l.indent_stack, indent)]
             IN  Returned(l1, make_token(l1, "INDENT", "", 0))
        ELSE IF indent < current
        THEN LET l1 == pop_indents(l, indent)
             IN  IF misaligned(l1, indent)
                 THEN Exited(l1, "Indentation error at line %d", l1.line, 0)
                 ELSE LET l2 == [l1 EXCEPT !.pending_dedents = l1.pending_dedents - 1]
                      IN  Returned(l2, make_token(l2, "DEDENT", "", 0))
        ELSE scan(l)

lexer_next_token(l) ==
    IF l.pending_dedents > 0
    THEN LET l1 == [l EXCEPT !.pending_dedents = l.pending_dedents - 1]
         IN  Returned(l1, make_token(l1, "DEDENT", "", 0))
    ELSE IF l.at_line_start THEN line_start(l)
    ELSE scan(l)

-----------------------------------------------------------------------------
(* The lexer specification: every source up to MaxSrcLen characters is      *)
(* tokenised by successive calls of lexer_next_token up to the first EOF.   *)

RECURSIVE StringsOfLen(_)
StringsOfLen(n) ==
    IF n = 0 THEN {""}
    ELSE {s \o c : s \in StringsOfLen(n - 1), c \in LexAlphabet}

Sources == UNION {StringsOfLen(n) : n \in 0 .. MaxSrcLen}

\* what the bytes behind the buffer may hold
BeyondBytes == LexAlphabet \cup {NUL}

LexInit ==
    /\ src \in Sources
    /\ beyond \in [1 .. MaxBeyond -> BeyondBytes]
    /\ lx = lexer_create
    /\ toks = <<>>
    /\ lstatus = "run"
    /\ lexerr = NoErr
    /\ SemaIdle
    /\ CgIdle

\* one call of lexer_next_token, up to the first EOF it returns
LexNextToken ==
    /\ lstatus = "run"
    /\ LET r == lexer_next_token(lx)
       IN  /\ lx' = r.lx
           /\ IF r.err # NoErr
              THEN /\ lexerr' = r.err
                   /\ lstatus' = "error"
                   /\ toks' = toks
              ELSE /\ lexerr' = lexerr
                   /\ toks' = Append(toks, r.tok)
                   /\ lstatus' = IF r.tok.type = "EOF" THEN "eof" ELSE "run"
    /\ UNCHANGED <<src, beyond>>
    /\ UNCHANGED semavars
    /\ UNCHANGED cgvars

LexNext == LexNextToken

SpecLex == LexInit /\ [][LexNext]_vars

-----------------------------------------------------------------------------
(* Claims about the lexer *)

CountType(ts, type) == Cardinality({i \in 1 .. Len(ts) : ts[i].type = type})

\* the number of the line that holds src[p]: one more than the line breaks
\* before it
LineOf(p) == 1 + Cardinality({i \in 0 .. p - 1 : ByteAt(i) = "\n"})

\* the number of spaces and tabs that start at src[p]
LeadingWidth(p) ==
    LET blanks == {n \in 0 .. Len(src) + MaxBeyond + 1 :
                      \A i \in 0 .. n - 1 : ByteAt(p + i) \in {" ", "\t"}}
    IN  CHOOSE n \in blanks : \A m \in blanks : m <= n

\* the top that is left once every entry greater than w has been popped
TopAfterPopping(stack, w) ==
    LET i == CHOOSE k \in 1 .. Len(stack) :
                 /\ stack[k] <= w
                 /\ \A j \in k + 1 .. Len(stack) : stack[j] > w
    IN  stack[i]

\* C4: when the lexer has returned EOF without raising an error, it has
\* returned as many INDENT tokens as DEDENT tokens before that EOF.
C4_IndentDedentBalance ==
    lstatus = "eof" =>
        CountType(toks, "INDENT") = CountType(toks, "DEDENT")

\* a source with two nested blocks has been tokenised up to EOF
C4_Witness ==
    /\ lstatus = "eof"
    /\ CountType(toks, "INDENT") >= 2

\* the lexer is about to read the start of a line whose width is below the
\* top of the indent stack and matches no level left after popping
MisalignedDedentAhead ==
    /\ lstatus = "run"
    /\ lx.pending_dedents = 0
    /\ lx.at_line_start
    /\ LeadingWidth(lx.pos) < lx.indent_stack[lx.indent_top + 1]
    /\ TopAfterPopping(lx.indent_stack, LeadingWidth(lx.pos)) # LeadingWidth(lx.pos)

\* C5: a line whose width is smaller than the top of the indent stack and,
\* after popping every greater entry, differs from the new top makes the
\* lexer fail with "Indentation error at line L", L the number of that
\* line, before it returns any DEDENT for that line.
C5_IndentationError ==
    [][MisalignedDedentAhead =>
          /\ lstatus' = "error"
          /\ lexerr' = [msg |-> "Indentation error at line %d",
                        line |-> LineOf(lx.pos), col |-> 0]
          /\ toks' = toks]_vars

\* the lexer has failed on the third line of a source, inside a block
C5_Witness ==
    /\ lstatus = "error"
    /\ lexerr.msg = "Indentation error at line %d"
    /\ lexerr.line = 3
    /\ CountType(toks, "INDENT") = 1
    /\ CountType(toks, "DEDENT") = 0

\* C6: at end of input, successive calls return one DEDENT for every indent
\* level still above 0, and EOF only after all of them, with or without a
\* final newline.
C6_EofDrain ==
    [][(lstatus = "run" /\ lx.pos >= Len(src)) =>
          /\ lstatus' # "error"
          /\ toks' = Append(toks, toks'[Len(toks')])
          /\ toks'[Len(toks')].type =
                IF lx.indent_top + lx.pending_dedents > 0
                THEN "DEDENT" ELSE "EOF"]_vars

-----------------------------------------------------------------------------
(* The AST that the semantic analyzer walks                                  *)
(*                                                                           *)
(* A node carries the token it was created from, as its line and column.     *)

Tok(line, column) == [line |-> line, column |-> column]

\* ast_literal_create with ast_literal_set_text or ast_literal_set_bool
LiteralOf(literal_kind, text, bool_value, tok) ==
    [kind |-> "literal", literal_kind |-> literal_kind, text |-> text,
     bool_value |-> bool_value, tok |-> tok]

\* the integer literal 1
Literal(tok) == LiteralOf("int", "1", FALSE, tok)

Identifier(name, tok) == [kind |-> "identifier", name |-> name, tok |-> tok]

Call(callee, arguments, tok) ==
    [kind |-> "call", callee |-> callee, arguments |-> arguments, tok |-> tok]

Binary(left, op, right, tok) ==
    [kind |-> "binary", left |-> left, op |-> op, right |-> right, tok |-> tok]

VarDecl(name, is_mutable, type_name, initializer, tok) ==
    [kind |-> "var_decl", name |-> name, is_mutable |-> is_mutable,
     type_name |-> type_name, initializer |-> initializer, tok |-> tok]

Assign(target, value, tok) ==
    [kind |-> "assign", target |-> target, value |-> value, tok |-> tok]

If(condition, has_else, tok) ==
    [kind |-> "if", condition |-> condition, has_else |-> has_else, tok |-> tok]

For(tok) == [kind |-> "for", tok |-> tok]

Return(value, tok) == [kind |-> "return", value |-> value, tok |-> tok]

ExprStmt(expr) == [kind |-> "expr_stmt", expr |-> expr, tok |-> expr.tok]

Param(name, type_name, tok) ==
    [kind |-> "param", name |-> name, type_name |-> type_name, tok |-> tok]

FunctionDecl(name, return_type, tok) ==
    [kind |-> "function", name |-> name, return_type |-> return_type, tok |-> tok]

\* a function declaration with the parameters ast_function_decl_add_param
\* has given it
FunctionDeclOf(name, return_type, params, tok) ==
    [kind |-> "function", name |-> name, return_type |-> return_type,
     params |-> params, tok |-> tok]

StructField(name, type_name, tok) ==
    [kind |-> "field", name |-> name, type_name |-> type_name, tok |-> tok]

StructDecl(name, fields, tok) ==
    [kind |-> "struct", name |-> name, fields |-> fields, tok |-> tok]

-----------------------------------------------------------------------------
(* The semantic analyzer                                                     *)
(*                                                                           *)
(* sema_error prints one diagnostic and exits: a context whose err is set    *)
(* is the context of a process that has exited, and every operator leaves    *)
(* it as it is.  A VarSymbol is modelled by its name and is_mutable, a       *)
(* FunctionSymbol by its name and return_type.                               *)

sema_context_init ==
    [scopes |-> <<>>, functions |-> <<>>,
     current_function |-> "NULL", current_flow_mode |-> "NONE",
     err |-> NoErr]

sema_error(ctx, tok, message) ==
    IF ctx.err # NoErr THEN ctx
    ELSE [ctx EXCEPT !.err = [msg |-> message, line |-> tok.line, col |-> tok.column]]

sema_push_scope(ctx) == [ctx EXCEPT !.scopes = Append(@, <<>>)]

sema_pop_scope(ctx) ==
    IF Len(ctx.scopes) = 0 THEN ctx
    ELSE [ctx EXCEPT !.scopes = SubSeq(@, 1, Len(@) - 1)]

NameIn(scope, name) == \E i \in 1 .. Len(scope) : scope[i].name = name

\* a redeclaration test that searches every frame of the stack
sema_add_var_any_frame(ctx, name, is_mutable, tok) ==
    IF ctx.err # NoErr THEN ctx
    ELSE LET c == IF Len(ctx.scopes) = 0 THEN sema_push_scope(ctx) ELSE ctx
             top == Len(c.scopes)
         IN  IF \E s \in 1 .. top : NameIn(c.scopes[s], name)
             THEN sema_error(c, tok, "symbol already declared in this scope")
             ELSE [c EXCEPT !.scopes[top] =
                        Append(@, [name |-> name, is_mutable |-> is_mutable])]

sema_add_var(ctx, name, is_mutable, tok) ==
    IF ctx.err # NoErr THEN ctx
    ELSE LET c == IF Len(ctx.scopes) = 0 THEN sema_push_scope(ctx) ELSE ctx
             top == Len(c.scopes)
         IN  IF NameIn(c.scopes[top], name)
             THEN sema_error(c, tok, "symbol already declared in this scope")
             ELSE [c EXCEPT !.scopes[top] =
                        Append(@, [name |-> name, is_mutable |-> is_mutable])]

\* the first symbol of a frame that has the name
SymbolIn(scope, name) ==
    scope[CHOOSE i \in 1 .. Len(scope) :
              /\ scope[i].name = name
              /\ \A j \in 1 .. i - 1 : scope[j].name # name]

\* a lookup that searches the outermost frame first
sema_lookup_var_outermost(ctx, name) ==
    LET hits == {s \in 1 .. Len(ctx.scopes) : NameIn(ctx.scopes[s], name)}
    IN  IF hits = {} THEN NULL
        ELSE SymbolIn(ctx.scopes[CHOOSE s \in hits : \A t \in hits : s <= t], name)

sema_lookup_var(ctx, name) ==
    LET hits == {s \in 1 .. Len(ctx.scopes) : NameIn(ctx.scopes[s], name)}
    IN  IF hits = {} THEN NULL
        ELSE SymbolIn(ctx.scopes[CHOOSE s \in hits : \A t \in hits : s >= t], name)

sema_add_function_symbol(ctx, name, return_type, tok) ==
    IF ctx.err # NoErr THEN ctx
    ELSE IF \E i \in 1 .. Len(ctx.functions) : ctx.functions[i].name = name
    THEN sema_error(ctx, tok, "function already declared")
    ELSE [ctx EXCEPT !.functions =
              Append(@, [name |-> name, return_type |-> return_type])]

SUPPORTED_BUILTINS == <<"log">>

sema_register_builtins(ctx) ==
    sema_add_function_symbol(ctx, SUPPORTED_BUILTINS[1], "null", Tok(0, 0))

sema_lookup_function(ctx, name) ==
    LET hits == {i \in 1 .. Len(ctx.functions) : ctx.functions[i].name = name}
    IN  IF hits = {} THEN NULL
        ELSE ctx.functions[CHOOSE i \in hits : \A j \in hits : i <= j]

sema_note_flow_usage(ctx, mode, tok) ==
    IF ctx.err # NoErr \/ mode = "NONE" THEN ctx
    ELSE IF ctx.current_flow_mode = "NONE"
    THEN [ctx EXCEPT !.current_flow_mode = mode]
    ELSE IF ctx.current_flow_mode # mode
    THEN sema_error(ctx, tok, "cannot mix maybe and result in the same function")
    ELSE ctx

\* strncmp(type_name, prefix, strlen(prefix)) == 0
HasPrefix(type_name, prefix) ==
    /\ Len(type_name) >= Len(prefix)
    /\ SubSeq(type_name, 1, Len(prefix)) = prefix

\* a prefix test that does not look at the character after the prefix
type_starts_with_any_next(type_name, prefix) == HasPrefix(type_name, prefix)

type_starts_with(type_name, prefix) ==
    /\ HasPrefix(type_name, prefix)
    /\ \/ Len(type_name) = Len(prefix)
       \/ SubSeq(type_name, Len(prefix) + 1, Len(prefix) + 1) = "["

type_is_maybe(type_name) == type_starts_with(type_name, "maybe")

\* a test that knows the bare name only
type_is_result_exact(type_name) == type_name = "result"

type_is_result(type_name) == type_starts_with(type_name, "result")

flow_mode_from_type(type_name) ==
    IF type_is_result(type_name) THEN "RESULT"
    ELSE IF type_is_maybe(type_name) THEN "MAYBE"
    ELSE "NONE"

type_is_primitive(type_name) ==
    type_name \in {"int", "float", "bool", "string", "null"}

type_is_concurrency(type_name) ==
    type_starts_with(type_name, "future") \/ type_starts_with(type_name, "chan")

sema_require_supported_type(ctx, type_name, tok, allow_complex) ==
    IF ctx.err # NoErr THEN ctx
    ELSE IF type_is_concurrency(type_name)
    THEN sema_error(ctx, tok, "concurrency is not supported by the current backend")
    ELSE IF ~allow_complex /\ (\/ type_is_result(type_name)
                               \/ type_is_maybe(type_name)
                               \/ ~type_is_primitive(type_name))
    THEN sema_error(ctx, tok, "struct contains unsupported field type for current backend")
    ELSE ctx

sema_is_concurrency_keyword(name) == name \in {"task", "future", "chan"}

sema_check_builtin_call(ctx, call) ==
    IF ctx.err # NoErr \/ call.callee.kind # "identifier" THEN ctx
    ELSE IF call.callee.name = "log" /\ Len(call.arguments) # 1
    THEN sema_error(ctx, call.tok, "log expects exactly one argument")
    ELSE ctx

RECURSIVE sema_check_expression(_, _)
RECURSIVE sema_check_arguments(_, _, _)
\* the loop over call->arguments, from argument i on
sema_check_arguments(ctx, arguments, i) ==
    IF i > Len(arguments) THEN ctx
    ELSE sema_check_arguments(sema_check_expression(ctx, arguments[i]),
                              arguments, i + 1)

sema_check_expression(ctx, node) ==
    IF ctx.err # NoErr \/ node = NULL THEN ctx
    ELSE CASE node.kind = "literal" -> ctx
           [] node.kind = "identifier" ->
                IF sema_is_concurrency_keyword(node.name)
                THEN sema_error(ctx, node.tok,
                                "concurrency is not supported by the current backend")
                ELSE IF sema_lookup_var(ctx, node.name) # NULL THEN ctx
                ELSE IF sema_lookup_function(ctx, node.name) = NULL
                THEN sema_error(ctx, node.tok, "undeclared identifier")
                ELSE ctx
           [] node.kind = "call" ->
                LET c1 ==
                      IF node.callee.kind = "identifier"
                      THEN IF sema_is_concurrency_keyword(node.callee.name)
                           THEN sema_error(ctx, node.tok,
                                    "concurrency is not supported by the current backend")
                           ELSE IF /\ sema_lookup_function(ctx, node.callee.name) = NULL
                                   /\ sema_lookup_var(ctx, node.callee.name) = NULL
                           THEN sema_error(ctx, node.callee.tok, "call to undefined function")
                           ELSE ctx
                      ELSE sema_check_expression(ctx, node.callee)
                IN  sema_check_builtin_call(
                        sema_check_arguments(c1, node.arguments, 1), node)
           [] node.kind = "binary" ->
                sema_check_expression(sema_check_expression(ctx, node.left), node.right)
           [] OTHER -> ctx

sema_check_unused_result(ctx, stmt) ==
    IF ctx.err # NoErr \/ stmt.expr = NULL THEN ctx
    ELSE IF stmt.expr.kind # "call" THEN ctx
    ELSE IF stmt.expr.callee.kind # "identifier" THEN ctx
    ELSE LET fn == sema_lookup_function(ctx, stmt.expr.callee.name)
         IN  IF fn # NULL /\ type_is_result(fn.return_type)
             THEN sema_error(ctx, stmt.expr.tok,
                             "result-returning function must not be ignored")
             ELSE ctx

\* sema_check_statement; for an if statement, up to the entry of its
\* then-block, whose statements are checked by the steps that follow
sema_check_statement(ctx, node) ==
    CASE node.kind = "var_decl" ->
            sema_check_expression(
                sema_add_var(
                    sema_note_flow_usage(
                        sema_require_supported_type(ctx, node.type_name, node.tok, TRUE),
                        flow_mode_from_type(node.type_name), node.tok),
                    node.name, node.is_mutable, node.tok),
                node.initializer)
      [] node.kind = "assign" ->
            LET var == sema_lookup_var(ctx, node.target)
            IN  IF var = NULL
                THEN sema_error(ctx, node.tok, "assignment to undeclared variable")
                ELSE IF ~var.is_mutable
                THEN sema_error(ctx, node.tok, "cannot assign to immutable variable")
                ELSE sema_check_expression(ctx, node.value)
      [] node.kind = "if" ->
            LET c1 == sema_check_expression(ctx, node.condition)
            IN  IF c1.err # NoErr THEN c1 ELSE sema_push_scope(c1)
      [] node.kind = "for" ->
            sema_error(ctx, node.tok, "'for in' is not yet supported for this type")
      [] node.kind = "return" ->
            IF ctx.current_function = "NULL"
            THEN sema_error(ctx, node.tok, "return outside of function")
            ELSE sema_check_expression(ctx, node.value)
      [] node.kind = "expr_stmt" ->
            sema_check_unused_result(sema_check_expression(ctx, node.expr), node)
      [] OTHER -> ctx

\* a first pass that registers no function
sema_register_nothing(ctx, declarations, i) == ctx

\* the first loop of sema_check_program, from declaration i on
RECURSIVE sema_register_functions(_, _, _)
sema_register_functions(ctx, declarations, i) ==
    IF i > Len(declarations) THEN ctx
    ELSE IF declarations[i].kind # "function"
    THEN sema_register_functions(ctx, declarations, i + 1)
    ELSE sema_register_functions(
             sema_add_function_symbol(ctx, declarations[i].name,
                                      declarations[i].return_type,
                                      declarations[i].tok),
             declarations, i + 1)

\* sema_check_function up to its loop over the parameters
sema_check_function(ctx, fn) ==
    LET c0 == [ctx EXCEPT !.current_function = fn.name,
                          !.current_flow_mode = flow_mode_from_type(fn.return_type)]
        c1 == sema_require_supported_type(c0, fn.return_type, fn.tok, TRUE)
        c2 == IF fn.name = "main" /\ type_is_result(fn.return_type)
              THEN sema_error(c1, fn.tok, "main cannot return result type")
              ELSE c1
    IN  IF c2.err # NoErr THEN c2 ELSE sema_push_scope(c2)

\* one round of the loop over fn->params
sema_check_param(ctx, param) ==
    sema_add_var(
        sema_note_flow_usage(
            sema_require_supported_type(ctx, param.type_name, param.tok, TRUE),
            flow_mode_from_type(param.type_name), param.tok),
        param.name, FALSE, param.tok)

\* the loop over fn->params, from parameter i on
RECURSIVE sema_check_params(_, _, _)
sema_check_params(ctx, params, i) ==
    IF i > Len(params) THEN ctx
    ELSE sema_check_params(sema_check_param(ctx, params[i]), params, i + 1)

sema_validate_struct_field(ctx, decl, field) ==
    LET c1 == sema_require_supported_type(ctx, field.type_name, field.tok, FALSE)
    IN  IF c1.err # NoErr THEN c1
        ELSE IF field.type_name = decl.name
        THEN sema_error(c1, field.tok,
                        "struct contains unsupported field type for current backend")
        ELSE c1

\* sema_check_struct, from field i on
RECURSIVE sema_check_struct(_, _, _)
sema_check_struct(ctx, decl, i) ==
    IF ctx.err # NoErr \/ i > Len(decl.fields) THEN ctx
    ELSE LET same == {j \in i + 1 .. Len(decl.fields) :
                         decl.fields[j].name = decl.fields[i].name}
         IN  IF same # {}
             THEN sema_error(ctx, decl.fields[CHOOSE j \in same : \A k \in same : j <= k].tok,
                             "duplicate field name in struct")
             ELSE sema_check_struct(sema_validate_struct_field(ctx, decl, decl.fields[i]),
                                    decl, i + 1)

-----------------------------------------------------------------------------
(* The semantic-analysis specification: sema_check_program walks a program   *)
(* of up to MaxDecls functions.  The parameters and the statements of a      *)
(* function are drawn as sema reaches them, one per step, in source order.   *)

\* the most parameters and statements of a function, nested statements
\* included
MaxItems == 4
\* the deepest nesting of if and else blocks in a function body
MaxDepth == 2

VarNames == {"x", "f"}

\* the names drawn for parameters
ParamNames == VarNames \cup {"chan"}

FuncNames == {"f", "main"}

ReturnTypes == {"null", "maybe[int]", "result", "result[int,int]", "results"}

VarTypes == {"int", "maybe[int]", "result[int,int]", "chan[int]"}

\* the names that the calls of the drawn statements call
CallNames == {"f", "log", "x"}

\* the line of the header of the i-th declaration; its statements follow,
\* one per line
DeclLine(i) == (i - 1) * (MaxItems + 1) + 1

\* the return types drawn for a second declaration
SecondTypes == {"null", "maybe[int]", "result[int,int]"}

\* the programs, as the headers of their function declarations: a function
\* f, alone or followed by a function main or by a second function f
Programs ==
    {<<FunctionDecl("f", t, Tok(DeclLine(1), 1))>> : t \in ReturnTypes}
    \cup {<<FunctionDecl("f", t, Tok(DeclLine(1), 1)),
            FunctionDecl(n, u, Tok(DeclLine(2), 1))>> :
              t \in ReturnTypes, n \in FuncNames, u \in SecondTypes}

\* the expressions drawn for initializers, assigned values and conditions
ValueExprs(tok) == {Literal(tok), Identifier("x", tok)}

\* the expressions drawn for expression statements
StmtExprs(tok) ==
    LET after == Tok(tok.line, tok.column + 1)
    IN  {Identifier("x", tok), Identifier("main", tok), Identifier("chan", tok),
         Call(Identifier("log", tok), <<Literal(after)>>, after),
         Call(Identifier("f", tok), <<Identifier("x", after)>>, after)}
        \cup {Call(Identifier(n, tok), <<>>, after) : n \in CallNames}
        \cup {Call(Call(Identifier("f", tok), <<>>, after), <<>>, after)}

\* a block of the function that sema is in: the body, a then-block or an
\* else-block, with the bindings that the source has declared in it so far
Frame(kind, has_else) == [kind |-> kind, has_else |-> has_else, declared |-> {}]

Binding(name, is_mutable) == [name |-> name, is_mutable |-> is_mutable]

SemaInit ==
    /\ decls \in Programs
    /\ sx = sema_context_init
    /\ sctl = [phase |-> "start", idx |-> 0, frames |-> <<>>,
               nitems |-> 0,
               prev_function |-> "NULL", previous_flow |-> "NONE"]
    /\ sstmt = NULL
    /\ ftypes = {}
    /\ LexIdle
    /\ CgIdle

Phase(ctx, running) == IF ctx.err # NoErr THEN "error" ELSE running

\* the token of the next statement of the current function
NextTok == Tok(DeclLine(sctl.idx) + sctl.nitems + 1, 4 * Len(sctl.frames) + 1)

\* sema_check_program up to the end of its first loop
SemaStart ==
    /\ sctl.phase = "start"
    /\ LET ctx == sema_register_functions(sema_register_builtins(sx), decls, 1)
       IN  /\ sx' = ctx
           /\ sctl' = [sctl EXCEPT !.phase = Phase(ctx, "decl"), !.idx = 1]
    /\ UNCHANGED <<decls, sstmt, ftypes>>
    /\ UNCHANGED lexvars
    /\ UNCHANGED cgvars

\* sema_check_declaration of a function, up to the loop over its parameters
SemaFunctionEnter ==
    /\ sctl.phase = "decl"
    /\ sctl.idx <= Len(decls)
    /\ LET fn == decls[sctl.idx]
           ctx == sema_check_function(sx, fn)
       IN  /\ sx' = ctx
           /\ sctl' = [sctl EXCEPT !.phase = Phase(ctx, "fn"),
                                   !.frames = <<Frame("body", FALSE)>>,
                                   !.nitems = 0,
                                   !.prev_function = sx.current_function,
                                   !.previous_flow = sx.current_flow_mode]
           /\ sstmt' = fn
           /\ ftypes' = {fn.return_type}
    /\ UNCHANGED decls
    /\ UNCHANGED lexvars
    /\ UNCHANGED cgvars

\* one round of the loop over the parameters
SemaParam ==
    /\ sctl.phase = "fn"
    /\ sctl.nitems = Len(sx.scopes[1])
    /\ Len(sctl.frames) = 1
    /\ sctl.nitems < MaxItems
    /\ \E name \in ParamNames, type_name \in VarTypes :
          LET param == Param(name, type_name,
                             Tok(DeclLine(sctl.idx), 2 + sctl.nitems))
              ctx == sema_check_param(sx, param)
          IN  /\ sx' = ctx
              /\ sctl' = [sctl EXCEPT !.phase = Phase(ctx, "fn"),
                                      !.nitems = @ + 1,
                                      !.frames[1].declared = @ \cup {Binding(name, FALSE)}]
              /\ sstmt' = param
              /\ ftypes' = ftypes \cup {type_name}
    /\ UNCHANGED decls
    /\ UNCHANGED lexvars
    /\ UNCHANGED cgvars

\* sema_check_statement of the next statement of the innermost open block
SemaStatement(node) ==
    /\ sctl.phase = "fn"
    /\ sctl.nitems < MaxItems
    /\ LET ctx == sema_check_statement(sx, node)
           top == Len(sctl.frames)
       IN  /\ sx' = ctx
           /\ sstmt' = node
           /\ ftypes' = IF node.kind = "var_decl"
                        THEN ftypes \cup {node.type_name} ELSE ftypes
           /\ sctl' = [sctl EXCEPT
                  !.phase = Phase(ctx, "fn"),
                  !.nitems = @ + 1,
                  !.frames =
                      IF node.kind = "var_decl"
                      THEN [@ EXCEPT ![top].declared =
                                         @ \cup {Binding(node.name, node.is_mutable)}]
                      ELSE IF node.kind = "if" /\ ctx.err = NoErr
                      THEN Append(@, Frame("then", node.has_else))
                      ELSE @]
    /\ UNCHANGED decls
    /\ UNCHANGED lexvars
    /\ UNCHANGED cgvars

SemaVarDecl ==
    \E name \in VarNames, is_mutable \in BOOLEAN, type_name \in VarTypes :
        SemaStatement(VarDecl(name, is_mutable, type_name,
                              Literal(Tok(NextTok.line, NextTok.column + 4)), NextTok))

SemaAssign ==
    \E target \in VarNames :
        \E value \in ValueExprs(Tok(NextTok.line, NextTok.column + 4)) :
            SemaStatement(Assign(target, value, NextTok))

SemaIf ==
    /\ Len(sctl.frames) <= MaxDepth
    /\ \E has_else \in BOOLEAN :
          SemaStatement(If(Literal(Tok(NextTok.line, NextTok.column + 3)),
                           has_else, NextTok))

SemaFor == SemaStatement(For(NextTok))

SemaReturn ==
    \E value \in {NULL, Literal(Tok(NextTok.line, NextTok.column + 7))} :
        SemaStatement(Return(value, NextTok))

SemaExprStmt ==
    \E expr \in StmtExprs(NextTok) : SemaStatement(ExprStmt(expr))

\* the end of a then-block or of an else-block: sema_check_block pops its
\* scope, and the else-block of the statement, if it has one, is entered
SemaBlockEnd ==
    /\ sctl.phase = "fn"
    /\ Len(sctl.frames) > 1
    /\ LET top == sctl.frames[Len(sctl.frames)]
           outer == SubSeq(sctl.frames, 1, Len(sctl.frames) - 1)
       IN  IF top.kind = "then" /\ top.has_else
           THEN /\ sx' = sema_push_scope(sema_pop_scope(sx))
                /\ sctl' = [sctl EXCEPT !.frames = Append(outer, Frame("else", FALSE))]
           ELSE /\ sx' = sema_pop_scope(sx)
                /\ sctl' = [sctl EXCEPT !.frames = outer]
    /\ sstmt' = NULL
    /\ UNCHANGED <<decls, ftypes>>
    /\ UNCHANGED lexvars
    /\ UNCHANGED cgvars

\* the end of the body of a function: sema_check_function pops the scope of
\* the function and restores what it saved; after the last declaration
\* sema_check_program returns
SemaFunctionLeave ==
    /\ sctl.phase = "fn"
    /\ Len(sctl.frames) = 1
    /\ sx' = [sema_pop_scope(sx) EXCEPT
                  !.current_function = sctl.prev_function,
                  !.current_flow_mode = sctl.previous_flow]
    /\ sctl' = [sctl EXCEPT !.phase = IF sctl.idx = Len(decls) THEN "done" ELSE "decl",
                            !.idx = @ + 1,
                            !.frames = <<>>]
    /\ sstmt' = NULL
    /\ UNCHANGED <<decls, ftypes>>
    /\ UNCHANGED lexvars
    /\ UNCHANGED cgvars

SemaNext ==
    \/ SemaStart
    \/ SemaFunctionEnter
    \/ SemaParam
    \/ SemaVarDecl
    \/ SemaAssign
    \/ SemaIf
    \/ SemaFor
    \/ SemaReturn
    \/ SemaExprStmt
    \/ SemaBlockEnd
    \/ SemaFunctionLeave

SpecSema == SemaInit /\ [][SemaNext]_vars

-----------------------------------------------------------------------------
(* Claims about the semantic analyzer *)

UndeclaredMsg == "assignment to undeclared variable"

ImmutableMsg == "cannot assign to immutable variable"

UnusedResultMsg == "result-returning function must not be ignored"

MixMsg == "cannot mix maybe and result in the same function"

RedeclaredMsg == "symbol already declared in this scope"

ConcurrencyMsg == "concurrency is not supported by the current backend"

StartsWith(text, prefix) ==
    Len(text) >= Len(prefix) /\ SubSeq(text, 1, Len(prefix)) = prefix

MaybePrefixed(type_name) == type_name = "maybe" \/ StartsWith(type_name, "maybe[")

ResultPrefixed(type_name) == type_name = "result" \/ StartsWith(type_name, "result[")

\* the blocks around the current statement that declare the name
BindingFrames(name) ==
    {k \in 1 .. Len(sctl.frames) : \E d \in sctl.frames[k].declared : d.name = name}

\* the innermost of them declares it with mut
InnermostIsMutable(name) ==
    LET k == CHOOSE i \in BindingFrames(name) : \A j \in BindingFrames(name) : j <= i
    IN  \E d \in sctl.frames[k].declared : d.name = name /\ d.is_mutable

\* C1: an assignment to a name that no enclosing block binds is rejected
\* with 'assignment to undeclared variable'; an assignment to a name whose
\* innermost binding is declared without mut (a parameter, an immutable
\* binding that shadows a mutable one) is rejected with 'cannot assign to
\* immutable variable'; an assignment to a name whose innermost binding is
\* mutable is rejected with neither.
C1_AssignNeedsMutableBinding ==
    sstmt.kind = "assign" =>
        IF BindingFrames(sstmt.target) = {}
        THEN sx.err.msg = UndeclaredMsg
        ELSE IF ~InnermostIsMutable(sstmt.target)
        THEN sx.err.msg = ImmutableMsg
        ELSE sx.err.msg \notin {UndeclaredMsg, ImmutableMsg}

\* an assignment in an if-block to a name that the block declares without
\* mut and the function body declares with mut has been rejected
C1_Witness ==
    /\ sstmt.kind = "assign"
    /\ sx.err.msg = ImmutableMsg
    /\ Len(sctl.frames) = 2
    /\ Binding(sstmt.target, TRUE) \in sctl.frames[1].declared
    /\ Binding(sstmt.target, FALSE) \in sctl.frames[2].declared

\* the function table: the builtin and the functions of the program
FunctionTable ==
    {[name |-> "log", return_type |-> "null"]}
    \cup {[name |-> decls[i].name, return_type |-> decls[i].return_type] :
             i \in 1 .. Len(decls)}

\* the statement is a call, by name, of a function that returns a result
IgnoresResult(stmt) ==
    /\ stmt.kind = "expr_stmt"
    /\ stmt.expr.kind = "call"
    /\ stmt.expr.callee.kind = "identifier"
    /\ \E fn \in FunctionTable :
          fn.name = stmt.expr.callee.name /\ ResultPrefixed(fn.return_type)

\* C2: an expression statement that calls, by name, a function of the
\* function table whose return type is `result` or starts with `result[` is
\* rejected, and with 'result-returning function must not be ignored' when
\* the call expression itself is well-formed; no other expression statement
\* is rejected with that message.
C2_ResultMustNotBeIgnored ==
    sstmt.kind = "expr_stmt" =>
        /\ IgnoresResult(sstmt) => sx.err # NoErr
        /\ (/\ IgnoresResult(sstmt)
            /\ sema_check_expression([sx EXCEPT !.err = NoErr], sstmt.expr).err = NoErr)
              => sx.err.msg = UnusedResultMsg
        /\ sx.err.msg = UnusedResultMsg => IgnoresResult(sstmt)

\* a call of f, which returns result[int,int], has been rejected where a
\* variable named f is in scope
C2_Witness ==
    /\ sstmt.kind = "expr_stmt"
    /\ sx.err.msg = UnusedResultMsg
    /\ sstmt.expr.callee.name = "f"
    /\ [name |-> "f", return_type |-> "result[int,int]"] \in FunctionTable
    /\ BindingFrames("f") # {}

\* C3: sema rejects a function with 'cannot mix maybe and result in the same
\* function' exactly when a maybe-prefixed type and a result-prefixed type
\* are both among the types it has met in that function: its return type,
\* the types of its parameters and the types of its local variables, nested
\* ones included.  ftypes starts anew with every function.
C3_FlowModeMix ==
    (sx.err.msg = MixMsg) <=>
        /\ \E t \in ftypes : MaybePrefixed(t)
        /\ \E t \in ftypes : ResultPrefixed(t)

\* the second function of a program, which returns a maybe, has been
\* rejected at a result-typed local of an if-block, after a first function
\* that returns a result was accepted
C3_Witness ==
    /\ sx.err.msg = MixMsg
    /\ sctl.idx = 2
    /\ Len(sctl.frames) = 2
    /\ sstmt.kind = "var_decl"
    /\ ResultPrefixed(sstmt.type_name)
    /\ ResultPrefixed(decls[1].return_type)
    /\ MaybePrefixed(decls[2].return_type)

\* the step checks a parameter or a variable declaration
DeclarationStep ==
    /\ sctl'.nitems = sctl.nitems + 1
    /\ sstmt'.kind \in {"param", "var_decl"}

\* C10: a parameter or variable whose name the innermost block already
\* declares is rejected, and with 'symbol already declared in this scope'
\* unless its type is rejected first; a name that only enclosing blocks
\* declare is not rejected with that message.  The parameters and the
\* top-level declarations of the body belong to one block; every if-block
\* and every else-block is a block of its own.
C10_Redeclaration ==
    [][DeclarationStep =>
          LET inner == sctl.frames[Len(sctl.frames)].declared
          IN  IF \E d \in inner : d.name = sstmt'.name
              THEN /\ sx'.err.msg \in {RedeclaredMsg, ConcurrencyMsg, MixMsg}
                   /\ sx'.err.msg = RedeclaredMsg
                        <=> sema_note_flow_usage(
                                sema_require_supported_type(sx, sstmt'.type_name,
                                                            sstmt'.tok, TRUE),
                                flow_mode_from_type(sstmt'.type_name),
                                sstmt'.tok).err = NoErr
              ELSE sx'.err.msg # RedeclaredMsg]_vars

\* a variable has been declared in an else-block under a name that the
\* function body declares too, and sema has accepted it
C10_Witness ==
    /\ sstmt.kind = "var_decl"
    /\ sx.err = NoErr
    /\ Len(sctl.frames) = 2
    /\ sctl.frames[2].kind = "else"
    /\ \E d \in sctl.frames[1].declared : d.name = sstmt.name
    /\ \E d \in sctl.frames[2].declared : d.name = sstmt.name

-----------------------------------------------------------------------------
(* The C code generator                                                      *)
(*                                                                           *)
(* The C file is the sequence of the lines that have been ended, with the    *)
(* text written since the last newline as the writer's pending text.  A      *)
(* char pointer that is NULL is the string "NULL".                           *)

\* what writer_write_indent writes for a writer of the given indent
RECURSIVE Indentation(_)
Indentation(indent) ==
    IF indent = 0 THEN "" ELSE "    " \o Indentation(indent - 1)

writer_write_indent(writer) ==
    [writer EXCEPT !.pending = @ \o Indentation(writer.indent)]

writer_printf(writer, text) == [writer EXCEPT !.pending = @ \o text]

writer_begin_line(writer) == writer_write_indent(writer)

writer_end_line(writer) ==
    [writer EXCEPT !.file = Append(@, writer.pending), !.pending = ""]

writer_line(writer, text) ==
    writer_end_line(writer_printf(writer_write_indent(writer), text))

writer_push(writer) == [writer EXCEPT !.indent = @ + 1]

writer_pop(writer) ==
    IF writer.indent > 0 THEN [writer EXCEPT !.indent = @ - 1] ELSE writer

writer_blank_line(writer) == writer_end_line(writer)

\* the writer functions, applied to the writer of a context
Line(ctx, text) == [ctx EXCEPT !.writer = writer_line(@, text)]

Printf(ctx, text) == [ctx EXCEPT !.writer = writer_printf(@, text)]

BeginLine(ctx) == [ctx EXCEPT !.writer = writer_begin_line(@)]

EndLine(ctx) == [ctx EXCEPT !.writer = writer_end_line(@)]

Push(ctx) == [ctx EXCEPT !.writer = writer_push(@)]

Pop(ctx) == [ctx EXCEPT !.writer = writer_pop(@)]

BlankLine(ctx) == [ctx EXCEPT !.writer = writer_blank_line(@)]

\* writer_line for each of the texts, from text i on
RECURSIVE Lines(_, _, _)
Lines(ctx, texts, i) ==
    IF i > Len(texts) THEN ctx ELSE Lines(Line(ctx, texts[i]), texts, i + 1)

\* cg_context_init; printed counts the diagnostics that cg_fail has written
\* to stderr
cg_context_init ==
    [writer |-> [file |-> <<>>, pending |-> "", indent |-> 0],
     structs |-> <<>>,
     functions |-> <<>>,
     scopes |-> <<>>,
     current_function |-> "NULL",
     had_error |-> FALSE,
     err |-> NoErr,
     printed |-> 0]

cg_register_struct(ctx, decl) ==
    [ctx EXCEPT !.structs =
        Append(@, [decl |-> decl, name |-> decl.name,
                   assign_helper |-> "lz_assign_struct_" \o decl.name])]

cg_register_function(ctx, decl) ==
    [ctx EXCEPT !.functions =
        Append(@, [decl |-> decl, name |-> decl.name,
                   c_name |-> "lz_fn_" \o decl.name])]

\* cg_collect_metadata, from declaration i on
RECURSIVE cg_collect_metadata(_, _, _)
cg_collect_metadata(ctx, declarations, i) ==
    IF i > Len(declarations) THEN ctx
    ELSE cg_collect_metadata(
             IF declarations[i].kind = "struct"
             THEN cg_register_struct(ctx, declarations[i])
             ELSE IF declarations[i].kind = "function"
             THEN cg_register_function(ctx, declarations[i])
             ELSE ctx,
             declarations, i + 1)

\* the first item of the sequence that has the name, or NULL
FirstNamed(items, name) ==
    LET found == {i \in 1 .. Len(items) : items[i].name = name}
    IN  IF found = {} THEN NULL
        ELSE items[CHOOSE i \in found : \A j \in found : i <= j]

cg_find_function(ctx, name) == FirstNamed(ctx.functions, name)

cg_find_struct(ctx, name) == FirstNamed(ctx.structs, name)

cg_scope_push(ctx) == [ctx EXCEPT !.scopes = Append(@, <<>>)]

\* a pop that leaves the frame on the stack
cg_scope_pop_kept(ctx) == ctx

cg_scope_pop(ctx) ==
    IF Len(ctx.scopes) = 0 THEN ctx
    ELSE [ctx EXCEPT !.scopes = SubSeq(@, 1, Len(@) - 1)]

cg_scope_add(ctx, name, type_name, is_mutable) ==
    LET c1 == IF Len(ctx.scopes) = 0 THEN cg_scope_push(ctx) ELSE ctx
    IN  [c1 EXCEPT !.scopes[Len(c1.scopes)] =
            Append(@, [name |-> name, type_name |-> type_name,
                       is_mutable |-> is_mutable])]

\* a lookup that searches the scopes from the outermost one
cg_scope_lookup_outermost(ctx, name) ==
    LET holding == {s \in 1 .. Len(ctx.scopes) : FirstNamed(ctx.scopes[s], name) # NULL}
    IN  IF holding = {} THEN NULL
        ELSE FirstNamed(ctx.scopes[CHOOSE s \in holding : \A t \in holding : s <= t], name)

cg_scope_lookup(ctx, name) ==
    LET holding == {s \in 1 .. Len(ctx.scopes) : FirstNamed(ctx.scopes[s], name) # NULL}
    IN  IF holding = {} THEN NULL
        ELSE FirstNamed(ctx.scopes[CHOOSE s \in holding : \A t \in holding : s >= t], name)

cg_type_is_result(type_name) == HasPrefix(type_name, "result")

cg_type_is_maybe(type_name) == HasPrefix(type_name, "maybe")

cg_type_is_struct(ctx, type_name) == cg_find_struct(ctx, type_name) # NULL

cg_c_type_for(ctx, type_name) ==
    IF type_name = "NULL" THEN "void *"
    ELSE IF type_name = "int" THEN "int64_t"
    ELSE IF type_name = "float" THEN "double"
    ELSE IF type_name = "bool" THEN "bool"
    ELSE IF type_name = "string" THEN "struct lz_string *"
    ELSE IF type_name = "null" THEN "void *"
    ELSE IF cg_type_is_result(type_name) THEN "lz_result"
    ELSE IF cg_type_is_maybe(type_name) THEN "lz_maybe"
    ELSE IF cg_type_is_struct(ctx, type_name) THEN type_name
    ELSE type_name

cg_c_return_type_for(ctx, type_name) ==
    IF type_name = "NULL" \/ type_name = "null" THEN "void"
    ELSE cg_c_type_for(ctx, type_name)

cg_assign_helper_for(ctx, type_name) ==
    IF type_name = "NULL" THEN "lz_assign_ptr"
    ELSE IF type_name = "int" THEN "lz_assign_int64"
    ELSE IF type_name = "float" THEN "lz_assign_double"
    ELSE IF type_name = "bool" THEN "lz_assign_bool"
    ELSE IF type_name = "string" THEN "lz_assign_string"
    ELSE IF cg_type_is_result(type_name) THEN "lz_assign_result"
    ELSE IF cg_type_is_maybe(type_name) THEN "lz_assign_maybe"
    ELSE IF cg_find_struct(ctx, type_name) # NULL
    THEN cg_find_struct(ctx, type_name).assign_helper
    ELSE "lz_assign_ptr"

\* a codegen that reports no error
cg_fail_unreported(ctx, tok, message) == ctx

\* the diagnostic goes to stderr; only the first one is printed
cg_fail(ctx, tok, message) ==
    IF ctx.had_error THEN ctx
    ELSE [ctx EXCEPT !.had_error = TRUE,
                     !.err = [msg |-> message, line |-> tok.line, col |-> tok.column],
                     !.printed = @ + 1]

\* what cg_emit_string_literal writes for one character of the text
EscapedChar(ch) ==
    IF ch = "\\" THEN "\\\\"
    ELSE IF ch = "\"" THEN "\\\""
    ELSE IF ch = "\n" THEN "\\n"
    ELSE IF ch = "\r" THEN "\\r"
    ELSE IF ch = "\t" THEN "\\t"
    ELSE ch

\* the loop of cg_emit_string_literal, from character i on
RECURSIVE Escaped(_, _)
Escaped(text, i) ==
    IF i > Len(text) THEN ""
    ELSE EscapedChar(SubSeq(text, i, i)) \o Escaped(text, i + 1)

cg_emit_string_literal(ctx, text) ==
    Printf(Printf(Printf(ctx, "lz_string_from_literal(\""), Escaped(text, 1)), "\")")

cg_emit_literal(ctx, literal) ==
    CASE literal.literal_kind \in {"int", "float"} ->
            Printf(ctx, IF literal.text = "NULL" THEN "0" ELSE literal.text)
      [] literal.literal_kind = "bool" ->
            Printf(ctx, IF literal.bool_value THEN "true" ELSE "false")
      [] literal.literal_kind = "string" ->
            cg_emit_string_literal(ctx, IF literal.text = "NULL" THEN "" ELSE literal.text)
      [] literal.literal_kind = "null" -> Printf(ctx, "NULL")
      [] OTHER -> ctx

cg_emit_identifier(ctx, ident) ==
    IF ident.name = "log" THEN Printf(ctx, "lz_runtime_log")
    ELSE IF cg_scope_lookup(ctx, ident.name) # NULL THEN Printf(ctx, ident.name)
    ELSE IF cg_find_function(ctx, ident.name) # NULL
    THEN Printf(ctx, cg_find_function(ctx, ident.name).c_name)
    ELSE Printf(ctx, ident.name)

cg_binary_op(type) ==
    CASE type = "PLUS" -> "+"
      [] type = "MINUS" -> "-"
      [] type = "STAR" -> "*"
      [] type = "SLASH" -> "/"
      [] type = "EQEQ" -> "=="
      [] type = "BANGEQ" -> "!="
      [] type = "LT" -> "<"
      [] type = "LTE" -> "<="
      [] type = "GT" -> ">"
      [] type = "GTE" -> ">="
      [] OTHER -> "/*?*/"

RECURSIVE cg_emit_expression(_, _)
RECURSIVE cg_emit_arguments(_, _, _)
\* the loop of cg_emit_call over call->arguments, from argument i on
cg_emit_arguments(ctx, arguments, i) ==
    IF i > Len(arguments) THEN ctx
    ELSE cg_emit_arguments(
             cg_emit_expression(IF i > 1 THEN Printf(ctx, ", ") ELSE ctx, arguments[i]),
             arguments, i + 1)

cg_emit_call(ctx, call) ==
    Printf(cg_emit_arguments(Printf(cg_emit_expression(ctx, call.callee), "("),
                             call.arguments, 1),
           ")")

cg_emit_binary(ctx, binary) ==
    Printf(cg_emit_expression(
               Printf(cg_emit_expression(Printf(ctx, "("), binary.left),
                      " " \o cg_binary_op(binary.op) \o " "),
               binary.right),
           ")")

cg_emit_expression(ctx, node) ==
    IF node = NULL THEN Printf(ctx, "NULL")
    ELSE CASE node.kind = "literal" -> cg_emit_literal(ctx, node)
           [] node.kind = "identifier" -> cg_emit_identifier(ctx, node)
           [] node.kind = "call" -> cg_emit_call(ctx, node)
           [] node.kind = "binary" -> cg_emit_binary(ctx, node)
           [] OTHER -> Printf(cg_fail(ctx, node.tok, "unsupported expression kind"),
                              "/* unsupported expr */")

\* an assignment that is written into the function body itself
cg_emit_assignment_direct(ctx, target_name, type_name, value) ==
    EndLine(Printf(cg_emit_expression(
                       Printf(BeginLine(ctx), target_name \o " = "), value),
                   ";"))

cg_emit_assignment_call(ctx, target_name, type_name, value) ==
    EndLine(Printf(cg_emit_expression(
                       Printf(BeginLine(ctx),
                              cg_assign_helper_for(ctx, type_name)
                                  \o "(&" \o target_name \o ", "),
                       value),
                   ");"))

cg_emit_var_decl(ctx, decl) ==
    cg_emit_assignment_call(
        cg_scope_add(Line(ctx, cg_c_type_for(ctx, decl.type_name)
                                   \o " " \o decl.name \o " = {0};"),
                     decl.name, decl.type_name, decl.is_mutable),
        decl.name, decl.type_name, decl.initializer)

cg_emit_assignment(ctx, assign) ==
    LET binding == cg_scope_lookup(ctx, assign.target)
    IN  IF binding = NULL
        THEN cg_fail(ctx, assign.tok, "assignment to unknown symbol")
        ELSE cg_emit_assignment_call(ctx, assign.target, binding.type_name, assign.value)

\* cg_emit_block up to its loop over the statements
cg_emit_block_enter(ctx) == cg_scope_push(Push(Line(ctx, "{")))

\* cg_emit_block after its loop over the statements
cg_emit_block_leave(ctx) == Line(Pop(cg_scope_pop(ctx)), "}")

\* a block that hands its tail to each of its statements
stmt_tail_of_every(tail, is_last) == tail

\* what cg_emit_block and cg_emit_function_body hand to a statement as its
\* tail_var and as its tail_helper
stmt_tail(tail, is_last) == IF tail # "NULL" /\ is_last THEN tail ELSE "NULL"

\* cg_emit_if up to the entry of the then-block, whose statements are
\* emitted by the steps that follow
cg_emit_if(ctx, stmt) ==
    cg_emit_block_enter(
        EndLine(Printf(cg_emit_expression(Printf(BeginLine(ctx), "if ("),
                                          stmt.condition),
                       ") ")))

\* cg_emit_if between its then-block and its else-block
cg_emit_else(ctx) == cg_emit_block_enter(Line(ctx, "else"))

cg_emit_return(ctx, stmt) ==
    LET c1 == Printf(BeginLine(ctx), "return")
        c2 == IF stmt.value # NULL
              THEN cg_emit_expression(Printf(c1, " "), stmt.value)
              ELSE c1
    IN  EndLine(Printf(c2, ";"))

cg_emit_expr_stmt(ctx, stmt, tail_var, tail_helper) ==
    LET c1 == BeginLine(ctx)
        c2 == IF tail_var # "NULL" /\ tail_helper # "NULL" /\ stmt.expr # NULL
              THEN Printf(cg_emit_expression(
                              Printf(c1, tail_helper \o "(&" \o tail_var \o ", "),
                              stmt.expr),
                          ");")
              ELSE Printf(IF stmt.expr # NULL
                          THEN cg_emit_expression(c1, stmt.expr) ELSE c1,
                          ";")
    IN  EndLine(c2)

cg_emit_statement(ctx, node, tail_var, tail_helper) ==
    IF ctx.had_error \/ node = NULL THEN ctx
    ELSE CASE node.kind = "var_decl" -> cg_emit_var_decl(ctx, node)
           [] node.kind = "assign" -> cg_emit_assignment(ctx, node)
           [] node.kind = "if" -> cg_emit_if(ctx, node)
           [] node.kind = "return" -> cg_emit_return(ctx, node)
           [] node.kind = "expr_stmt" ->
                cg_emit_expr_stmt(ctx, node, tail_var, tail_helper)
           [] node.kind = "for" ->
                cg_fail(ctx, node.tok, "for-in loops are not supported yet")
           [] OTHER -> cg_fail(ctx, node.tok, "unsupported statement kind in codegen")

cg_emit_file_header(ctx) == Line(ctx, "/* Auto-generated C output from lazylang */")

cg_emit_includes(ctx) ==
    Lines(ctx, <<"#include <stdint.h>",
                 "#include <stdbool.h>",
                 "#include <stddef.h>",
                 "#include <stdio.h>",
                 "#include <stdlib.h>",
                 "#include <string.h>",
                 "#if defined(__GNUC__) || defined(__clang__)",
                 "#define LZ_UNUSED __attribute__((unused))",
                 "#else",
                 "#define LZ_UNUSED",
                 "#endif",
                 "#define LZ_RUNTIME_DEFINE_STRUCTS",
                 "#include \"src/runtime/runtime.h\"">>, 1)

\* cg_emit_struct_forward_decls, from struct i on
RECURSIVE cg_emit_struct_forward_decls(_, _)
cg_emit_struct_forward_decls(ctx, i) ==
    IF i > Len(ctx.structs) THEN ctx
    ELSE cg_emit_struct_forward_decls(
             Line(ctx, "typedef struct " \o ctx.structs[i].name
                           \o " " \o ctx.structs[i].name \o ";"),
             i + 1)

\* the loop of cg_emit_structs over the fields of a struct, from field f on
RECURSIVE cg_emit_struct_fields(_, _, _)
cg_emit_struct_fields(ctx, fields, f) ==
    IF f > Len(fields) THEN ctx
    ELSE cg_emit_struct_fields(
             Line(ctx, cg_c_type_for(ctx, fields[f].type_name)
                           \o " " \o fields[f].name \o ";"),
             fields, f + 1)

\* cg_emit_structs, from struct i on
RECURSIVE cg_emit_structs(_, _)
cg_emit_structs(ctx, i) ==
    IF i > Len(ctx.structs) THEN ctx
    ELSE LET decl == ctx.structs[i].decl
             c1 == Push(Line(ctx, "struct " \o decl.name \o " {"))
             c2 == cg_emit_struct_fields(c1, decl.fields, 1)
         IN  cg_emit_structs(BlankLine(Line(Pop(c2), "};")), i + 1)

\* cg_emit_struct_assign_helpers, from struct i on
RECURSIVE cg_emit_struct_assign_helpers(_, _)
cg_emit_struct_assign_helpers(ctx, i) ==
    IF i > Len(ctx.structs) THEN ctx
    ELSE LET info == ctx.structs[i]
             c1 == Push(Line(ctx, "static void LZ_UNUSED " \o info.assign_helper
                                      \o "(" \o info.name \o " *dst, "
                                      \o info.name \o " value) {"))
             c2 == Pop(Line(c1, "*dst = value;"))
         IN  cg_emit_struct_assign_helpers(BlankLine(Line(c2, "}")), i + 1)

\* the loop of cg_emit_function_signature over fn->params, from parameter i on
RECURSIVE cg_emit_params(_, _, _)
cg_emit_params(ctx, params, i) ==
    IF i > Len(params) THEN ctx
    ELSE cg_emit_params(
             Printf(Printf(ctx, cg_c_type_for(ctx, params[i].type_name)
                                    \o " " \o params[i].name),
                    IF i + 1 <= Len(params) THEN ", " ELSE ""),
             params, i + 1)

cg_emit_function_signature(ctx, info, prototype) ==
    LET fn == info.decl
        c1 == Printf(BeginLine(ctx),
                     "static " \o cg_c_return_type_for(ctx, fn.return_type)
                         \o " " \o info.c_name \o "(")
        c2 == IF Len(fn.params) = 0 THEN Printf(c1, "void")
              ELSE cg_emit_params(c1, fn.params, 1)
        c3 == Printf(c2, ")")
    IN  EndLine(IF prototype THEN Printf(c3, ";") ELSE c3)

\* cg_emit_function_prototypes, from function i on
RECURSIVE cg_emit_function_prototypes(_, _)
cg_emit_function_prototypes(ctx, i) ==
    IF i > Len(ctx.functions) THEN ctx
    ELSE cg_emit_function_prototypes(
             cg_emit_function_signature(ctx, ctx.functions[i], TRUE), i + 1)

\* the loop of cg_emit_function_body over fn->params, from parameter i on
RECURSIVE cg_scope_add_params(_, _, _)
cg_scope_add_params(ctx, params, i) ==
    IF i > Len(params) THEN ctx
    ELSE cg_scope_add_params(
             cg_scope_add(ctx, params[i].name, params[i].type_name, FALSE),
             params, i + 1)

\* needs_tail_return of cg_emit_function_body, for a body of stmt_count
\* statements whose last one is of kind last_kind
needs_tail_return(ctx, fn, stmt_count, last_kind) ==
    /\ cg_c_return_type_for(ctx, fn.return_type) # "void"
    /\ (stmt_count = 0 \/ last_kind # "return")

\* cg_emit_function_body up to its loop over the statements
cg_emit_function_body_enter(ctx, fn, stmt_count, last_kind) ==
    LET c1 == cg_scope_add_params(cg_scope_push(Push(Line(ctx, "{"))), fn.params, 1)
    IN  IF needs_tail_return(ctx, fn, stmt_count, last_kind)
        THEN Line(c1, cg_c_type_for(ctx, fn.return_type) \o " __lz_ret = {0};")
        ELSE c1

\* cg_emit_function_body after its loop over the statements
cg_emit_function_body_leave(ctx, fn, stmt_count, last_kind) ==
    LET c1 == IF needs_tail_return(ctx, fn, stmt_count, last_kind)
              THEN Line(ctx, "return __lz_ret;")
              ELSE ctx
    IN  Line(Pop(cg_scope_pop(c1)), "}")

cg_emit_entrypoint(ctx) ==
    LET main_fn == cg_find_function(ctx, "main")
        c1 == Push(Line(ctx, "int main(void) {"))
        c2 == IF main_fn # NULL
              THEN Line(IF Len(main_fn.decl.params) = 0
                        THEN Line(c1, main_fn.c_name \o "();")
                        ELSE Line(Line(c1, "/* TODO: pass CLI arguments to main */"),
                                  main_fn.c_name \o "();"),
                        "return 0;")
              ELSE Line(Line(c1, "fprintf(stderr, \"no entry point defined\\n\");"),
                        "return 1;")
    IN  Line(Pop(c2), "}")

\* cg_emit_program up to cg_emit_function_definitions
cg_emit_program_enter(ctx, declarations) ==
    LET c1 == cg_emit_includes(cg_emit_file_header(
                  cg_collect_metadata(ctx, declarations, 1)))
        c2 == cg_emit_struct_forward_decls(BlankLine(c1), 1)
        c3 == cg_emit_structs(BlankLine(c2), 1)
        c4 == cg_emit_struct_assign_helpers(BlankLine(c3), 1)
        c5 == cg_emit_function_prototypes(BlankLine(c4), 1)
    IN  BlankLine(c5)

\* cg_emit_program after the loop of cg_emit_function_definitions
cg_emit_program_leave(ctx) ==
    cg_emit_entrypoint(BlankLine([ctx EXCEPT !.current_function = "NULL"]))

-----------------------------------------------------------------------------
(* The code-generation specification: main has parsed a program, sema has    *)
(* accepted it, and codegen_emit writes its C file.  The headers of the      *)
(* declarations are chosen at the start; the statements are drawn as         *)
(* cg_emit_program reaches them, one per step, in source order, each block   *)
(* with the number of its statements.  The context of sema is carried along  *)
(* as it was when sema checked the same statement: a statement that sema     *)
(* rejects is never drawn, because main would not have called codegen_emit.  *)

\* the most statements of a program, nested ones included
MaxStmts == 4

CgReturnTypes == {"null", "void", "int", "P"}

CgVarTypes == {"int", "P"}

\* the line of the header of the i-th function; its statements follow, one
\* per line
CgDeclLine(i) == (i - 1) * (MaxStmts + 1) + 3

\* a program with the struct P and one function of one parameter, or a
\* program without a struct, whose function f is followed by main
CgDeclarations ==
    {<<StructDecl("P", <<StructField("a", "int", Tok(2, 5))>>, Tok(1, 8)),
       FunctionDeclOf(name, type_name, <<Param("c", "bool", Tok(CgDeclLine(1), 2))>>,
                      Tok(CgDeclLine(1), 1))>> :
        name \in {"f", "main"}, type_name \in CgReturnTypes}
    \cup
    {<<FunctionDeclOf("f", type_name, <<>>, Tok(CgDeclLine(1), 1)),
       FunctionDeclOf("main", "null", <<>>, Tok(CgDeclLine(2), 1))>> :
        type_name \in {"int", "P"}}

\* sema accepts the headers of the declarations: the first loop of
\* sema_check_program, and what sema_check_declaration checks of a struct
\* and of a function before it comes to the body
SemaAcceptsHeaders(declarations) ==
    LET ctx == sema_register_functions(sema_register_builtins(sema_context_init),
                                       declarations, 1)
    IN  /\ ctx.err = NoErr
        /\ \A i \in 1 .. Len(declarations) :
              IF declarations[i].kind = "struct"
              THEN sema_check_struct(ctx, declarations[i], 1).err = NoErr
              ELSE sema_check_params(sema_check_function(ctx, declarations[i]),
                                     declarations[i].params, 1).err = NoErr

CgPrograms == {p \in CgDeclarations : SemaAcceptsHeaders(p)}

\* a block that codegen is in: block->statements.count, the number of its
\* statements that have been emitted, the else-block that follows it, the
\* tail_var and tail_helper it was called with, whether the block is the
\* body or the block of an if statement that is the last statement of a
\* block in tail position, and the bindings the source has declared in it
CgFrame(kind, count, has_else, else_count, tail_var, tail_helper, in_tail) ==
    [kind |-> kind, count |-> count, i |-> 0,
     has_else |-> has_else, else_count |-> else_count,
     tail_var |-> tail_var, tail_helper |-> tail_helper,
     in_tail |-> in_tail, declared |-> {}]

\* what a step has emitted: the node, the number of the first line the step
\* has written, and whether the node is a statement in tail position
Emitted(node, in_tail) ==
    [node |-> node, from |-> Len(cx.writer.file) + 1, in_tail |-> in_tail]

CgInit ==
    /\ decls \in CgPrograms
    /\ sx = sema_context_init
    /\ sctl = NULL
    /\ sstmt = NULL
    /\ ftypes = {}
    /\ cx = cg_context_init
    /\ cctl = [phase |-> "start", idx |-> 0, frames |-> <<>>, budget |-> MaxStmts,
               stmt_count |-> 0, last_kind |-> "other",
               prev_function |-> "NULL", previous_flow |-> "NONE"]
    /\ cstmt = NULL
    /\ LexIdle

\* the token of the next statement of the current function
CgNextTok ==
    Tok(CgDeclLine(cctl.idx) + (MaxStmts - cctl.budget) + 1, 4 * Len(cctl.frames) + 1)

\* codegen_emit and cg_emit_program up to the loop of
\* cg_emit_function_definitions
CgStart ==
    /\ cctl.phase = "start"
    /\ cx' = cg_emit_program_enter(cx, decls)
    /\ sx' = sema_register_functions(sema_register_builtins(sx), decls, 1)
    /\ cctl' = [cctl EXCEPT !.phase = "decl", !.idx = 1]
    /\ cstmt' = Emitted([kind |-> "program"], FALSE)
    /\ UNCHANGED <<decls, sctl, sstmt, ftypes>>
    /\ UNCHANGED lexvars

\* one round of the loop of cg_emit_function_definitions, up to the loop of
\* cg_emit_function_body over the statements
CgFunctionEnter ==
    /\ cctl.phase = "decl"
    /\ cctl.idx <= Len(cx.functions)
    /\ \E stmt_count \in 0 .. cctl.budget, last_kind \in {"return", "other"} :
          /\ stmt_count = 0 => last_kind = "other"
          /\ LET info == cx.functions[cctl.idx]
                 fn == info.decl
                 c1 == [cg_emit_function_signature(cx, info, FALSE)
                           EXCEPT !.current_function = fn.name]
                 tail == needs_tail_return(c1, fn, stmt_count, last_kind)
             IN  /\ cx' = cg_emit_function_body_enter(c1, fn, stmt_count, last_kind)
                 /\ sx' = sema_check_params(sema_check_function(sx, fn), fn.params, 1)
                 /\ cctl' = [cctl EXCEPT
                        !.phase = "fn",
                        !.frames = <<CgFrame("body", stmt_count, FALSE, 0,
                                             IF tail THEN "__lz_ret" ELSE "NULL",
                                             IF tail
                                             THEN cg_assign_helper_for(c1, fn.return_type)
                                             ELSE "NULL",
                                             TRUE)>>,
                        !.budget = @ - stmt_count,
                        !.stmt_count = stmt_count,
                        !.last_kind = last_kind,
                        !.prev_function = sx.current_function,
                        !.previous_flow = sx.current_flow_mode]
                 /\ cstmt' = Emitted(fn, FALSE)
    /\ UNCHANGED <<decls, sctl, sstmt, ftypes>>
    /\ UNCHANGED lexvars

\* cg_emit_statement of the next statement of the innermost open block; the
\* blocks of an if statement have then_count and else_count statements
CgStatement(node, then_count, else_count) ==
    /\ cctl.phase = "fn"
    /\ LET depth == Len(cctl.frames)
           top == cctl.frames[depth]
           is_last == top.i + 1 = top.count
           tail_var == stmt_tail(top.tail_var, is_last)
           tail_helper == stmt_tail(top.tail_helper, is_last)
           checked == sema_check_statement(sx, node)
       IN  /\ top.i < top.count
           /\ (depth = 1 /\ is_last) =>
                 ((node.kind = "return") <=> (cctl.last_kind = "return"))
           /\ checked.err = NoErr
           /\ sx' = checked
           /\ cx' = cg_emit_statement(cx, node, tail_var, tail_helper)
           /\ cstmt' = Emitted(node, top.in_tail /\ is_last)
           /\ cctl' = [cctl EXCEPT
                  !.budget = @ - then_count - else_count,
                  !.frames =
                      LET counted == [@ EXCEPT ![depth].i = @ + 1]
                      IN  IF node.kind = "var_decl"
                          THEN [counted EXCEPT ![depth].declared =
                                   @ \cup {[name |-> node.name,
                                            type_name |-> node.type_name]}]
                          ELSE IF node.kind = "if" /\ ~cx.had_error
                          THEN Append(counted,
                                      CgFrame("then", then_count, node.has_else,
                                              else_count, tail_var, tail_helper,
                                              top.in_tail /\ is_last))
                          ELSE counted]
    /\ UNCHANGED <<decls, sctl, sstmt, ftypes>>
    /\ UNCHANGED lexvars

CgVarDecl ==
    \E is_mutable \in BOOLEAN, type_name \in CgVarTypes :
        CgStatement(VarDecl("x", is_mutable, type_name,
                            Literal(Tok(CgNextTok.line, CgNextTok.column + 4)),
                            CgNextTok), 0, 0)

CgAssign ==
    CgStatement(Assign("x", Literal(Tok(CgNextTok.line, CgNextTok.column + 4)),
                       CgNextTok), 0, 0)

CgIf ==
    /\ Len(cctl.frames) <= MaxDepth
    /\ \E has_else \in BOOLEAN, then_count \in 0 .. cctl.budget :
          \E else_count \in 0 .. (IF has_else THEN cctl.budget - then_count ELSE 0) :
              CgStatement(If(LiteralOf("bool", "NULL", TRUE,
                                       Tok(CgNextTok.line, CgNextTok.column + 3)),
                             has_else, CgNextTok),
                          then_count, else_count)

CgReturn ==
    \E value \in {NULL, Literal(Tok(CgNextTok.line, CgNextTok.column + 7))} :
        CgStatement(Return(value, CgNextTok), 0, 0)

\* the expressions drawn for expression statements
CgStmtExprs(tok) ==
    LET after == Tok(tok.line, tok.column + 1)
    IN  {Literal(tok),
         Call(Identifier("log", tok), <<LiteralOf("string", "a", FALSE, after)>>, after),
         Call(Identifier("f", tok), <<>>, after),
         Binary(Literal(tok), "PLUS", Identifier("x", Tok(tok.line, tok.column + 4)),
                Tok(tok.line, tok.column + 2))}

CgExprStmt ==
    \E expr \in CgStmtExprs(CgNextTok) : CgStatement(ExprStmt(expr), 0, 0)

\* the end of a then-block or of an else-block: cg_emit_block pops its
\* scope and closes the brace, and the else-block of the statement, if it
\* has one, is entered
CgBlockEnd ==
    /\ cctl.phase = "fn"
    /\ Len(cctl.frames) > 1
    /\ LET top == cctl.frames[Len(cctl.frames)]
           outer == SubSeq(cctl.frames, 1, Len(cctl.frames) - 1)
       IN  /\ top.i = top.count
           /\ IF top.kind = "then" /\ top.has_else
              THEN /\ cx' = cg_emit_else(cg_emit_block_leave(cx))
                   /\ sx' = sema_push_scope(sema_pop_scope(sx))
                   /\ cctl' = [cctl EXCEPT !.frames =
                          Append(outer, CgFrame("else", top.else_count, FALSE, 0,
                                                top.tail_var, top.tail_helper,
                                                top.in_tail))]
              ELSE /\ cx' = cg_emit_block_leave(cx)
                   /\ sx' = sema_pop_scope(sx)
                   /\ cctl' = [cctl EXCEPT !.frames = outer]
    /\ cstmt' = Emitted([kind |-> "block_end"], FALSE)
    /\ UNCHANGED <<decls, sctl, sstmt, ftypes>>
    /\ UNCHANGED lexvars

\* the end of the body of a function: cg_emit_function_body returns the
\* return slot, pops the scope and closes the brace
CgFunctionLeave ==
    /\ cctl.phase = "fn"
    /\ Len(cctl.frames) = 1
    /\ cctl.frames[1].i = cctl.frames[1].count
    /\ LET fn == cx.functions[cctl.idx].decl
       IN  /\ cx' = BlankLine(cg_emit_function_body_leave(cx, fn, cctl.stmt_count,
                                                          cctl.last_kind))
           /\ cstmt' = Emitted([kind |-> "function_end", fn |-> fn], FALSE)
    /\ sx' = [sema_pop_scope(sx) EXCEPT
                  !.current_function = cctl.prev_function,
                  !.current_flow_mode = cctl.previous_flow]
    /\ cctl' = [cctl EXCEPT !.phase = "decl", !.idx = @ + 1, !.frames = <<>>]
    /\ UNCHANGED <<decls, sctl, sstmt, ftypes>>
    /\ UNCHANGED lexvars

\* cg_emit_program after the last function: the entry point
CgFinish ==
    /\ cctl.phase = "decl"
    /\ cctl.idx > Len(cx.functions)
    /\ cx' = cg_emit_program_leave(cx)
    /\ cctl' = [cctl EXCEPT !.phase = "done"]
    /\ cstmt' = Emitted([kind |-> "program_end"], FALSE)
    /\ UNCHANGED <<decls, sx, sctl, sstmt, ftypes>>
    /\ UNCHANGED lexvars

CgNext ==
    \/ CgStart
    \/ CgFunctionEnter
    \/ CgVarDecl
    \/ CgAssign
    \/ CgIf
    \/ CgReturn
    \/ CgExprStmt
    \/ CgBlockEnd
    \/ CgFunctionLeave
    \/ CgFinish

SpecCodegen == CgInit /\ [][CgNext]_vars

-----------------------------------------------------------------------------
(* What the specification says of the generated C                            *)

\* the C type of the type-mapping table
CTypeOf(type_name) ==
    CASE type_name = "int" -> "int64_t"
      [] type_name = "float" -> "double"
      [] type_name = "bool" -> "bool"
      [] type_name = "string" -> "struct lz_string *"
      [] type_name = "null" -> "void *"
      [] OTHER -> IF ResultPrefixed(type_name) THEN "lz_result"
                  ELSE IF MaybePrefixed(type_name) THEN "lz_maybe"
                  ELSE type_name

\* the names of the structs that the program declares
StructNames == {decls[i].name : i \in {j \in 1 .. Len(decls) : decls[j].kind = "struct"}}

\* the assign helper of a declared type
HelperOf(type_name) ==
    CASE type_name = "int" -> "lz_assign_int64"
      [] type_name = "float" -> "lz_assign_double"
      [] type_name = "bool" -> "lz_assign_bool"
      [] type_name = "string" -> "lz_assign_string"
      [] OTHER -> IF ResultPrefixed(type_name) THEN "lz_assign_result"
                  ELSE IF MaybePrefixed(type_name) THEN "lz_assign_maybe"
                  ELSE IF type_name \in StructNames
                  THEN "lz_assign_struct_" \o type_name
                  ELSE "lz_assign_ptr"

\* the text occurs in the line
Occurs(line, text) ==
    \E k \in 1 .. Len(line) - Len(text) + 1 : SubSeq(line, k, k + Len(text) - 1) = text

\* the C text of an expression
ExprText(node) ==
    cg_emit_expression([cx EXCEPT !.writer = [file |-> <<>>, pending |-> "", indent |-> 0]],
                       node).writer.pending

\* the lines that the last step has written
NewLines == SubSeq(cx.writer.file, cstmt.from, Len(cx.writer.file))

\* the indentation of the statements of the innermost open block
Margin == Indentation(cx.writer.indent)

\* the function that codegen is in
CurrentFunction == cx.functions[cctl.idx].decl

\* the body of the current function ends in a return statement
EndsInReturn == cctl.stmt_count > 0 /\ cctl.last_kind = "return"

\* the function gets a return slot: it returns a value, where valueless are
\* the return types of the functions that return none, and the last
\* statement of its body is not a return
HasReturnSlot(fn, valueless) == fn.return_type \notin valueless /\ ~EndsInReturn

\* the tail-expression rule, for the given return types without a value
TailRewrite(valueless) ==
    cstmt # NULL =>
        LET node == cstmt.node
            file == cx.writer.file
            last == Len(file)
        IN  /\ node.kind = "function" =>
                  IF HasReturnSlot(node, valueless)
                  THEN /\ file[last - 1] = "{"
                       /\ file[last] =
                              "    " \o CTypeOf(node.return_type) \o " __lz_ret = {0};"
                  ELSE file[last] = "{"
            /\ node.kind = "function_end" =>
                  /\ file[last - 1] = "}"
                  /\ HasReturnSlot(node.fn, valueless)
                         <=> (file[last - 2] = "    return __lz_ret;")
            /\ node.kind = "expr_stmt" =>
                  NewLines =
                      IF HasReturnSlot(CurrentFunction, valueless) /\ cstmt.in_tail
                      THEN <<Margin \o HelperOf(CurrentFunction.return_type)
                                 \o "(&__lz_ret, " \o ExprText(node.expr) \o ");">>
                      ELSE <<Margin \o ExprText(node.expr) \o ";">>
            /\ node.kind \in {"var_decl", "assign", "return", "if", "block_end"} =>
                  \A k \in 1 .. Len(NewLines) : ~Occurs(NewLines[k], "__lz_ret")

\* C7 (as the code has it): a function whose C return type is not void, that
\* is one whose return type is neither null nor void, and whose body does not
\* end in a return gets '<CType> __lz_ret = {0};' as its first line and
\* 'return __lz_ret;' as its last; its expression statements in tail position
\* (the last statement of the body, and the last statement of each block of an
\* if statement in tail position) are emitted as
\* '<helper>(&__lz_ret, <expr>);' with the helper of the return type.  Every
\* other statement, and every statement of a function without a return slot,
\* is emitted without the slot.
C7_TailExpressionReturn == TailRewrite({"null", "void"})

\* the last statement of the else-block of an if statement, which is the
\* last statement of the then-block of an if statement that ends the body of
\* a function returning the struct P, has been written into the return slot
C7_Witness ==
    /\ cstmt # NULL
    /\ cstmt.node.kind = "expr_stmt"
    /\ cstmt.in_tail
    /\ Len(cctl.frames) = 3
    /\ cctl.frames[2].kind = "then"
    /\ cctl.frames[3].kind = "else"
    /\ CurrentFunction.return_type = "P"
    /\ "P" \in StructNames
    /\ \E k \in 1 .. Len(NewLines) : Occurs(NewLines[k], "lz_assign_struct_P(&__lz_ret, ")

\* C7 as it is claimed: every function whose return type is not null and
\* whose body does not end in a return gets the return slot
C7_AsClaimed == TailRewrite({"null"})

\* the type that the innermost declaration of the name gives it: a local of
\* the innermost block that declares it, or else a parameter
DeclaredType(name) ==
    LET declaring == {d \in 1 .. Len(cctl.frames) :
                         \E b \in cctl.frames[d].declared : b.name = name}
        innermost == CHOOSE d \in declaring : \A e \in declaring : d >= e
        params == CurrentFunction.params
    IN  IF declaring # {}
        THEN (CHOOSE b \in cctl.frames[innermost].declared : b.name = name).type_name
        ELSE params[CHOOSE i \in 1 .. Len(params) : params[i].name = name].type_name

\* the line is the first line of the assign helper of a struct of the program
StructHelperHead(line) ==
    \E name \in StructNames :
        line = "static void LZ_UNUSED lz_assign_struct_" \o name
                   \o "(" \o name \o " *dst, " \o name \o " value) {"

\* every write of a function body goes through the helper of the target's
\* declared type
WritesThroughHelpers ==
    cstmt # NULL =>
        LET node == cstmt.node
        IN  /\ node.kind = "var_decl" =>
                  NewLines =
                      <<Margin \o CTypeOf(node.type_name) \o " " \o node.name \o " = {0};",
                        Margin \o HelperOf(node.type_name) \o "(&" \o node.name \o ", "
                            \o ExprText(node.initializer) \o ");">>
            /\ node.kind = "assign" =>
                  NewLines =
                      <<Margin \o HelperOf(DeclaredType(node.target))
                            \o "(&" \o node.target \o ", "
                            \o ExprText(node.value) \o ");">>
            /\ node.kind = "expr_stmt" =>
                  \A k \in 1 .. Len(NewLines) :
                      Occurs(NewLines[k], "__lz_ret") =>
                          NewLines[k] =
                              Margin \o HelperOf(CurrentFunction.return_type)
                                  \o "(&__lz_ret, " \o ExprText(node.expr) \o ");"

\* a direct assignment is written only as the body of the assign helper of
\* a struct
DirectOnlyInStructHelpers ==
    cstmt # NULL =>
        \A k \in cstmt.from .. Len(cx.writer.file) :
            Occurs(cx.writer.file[k], "*dst = value") =>
                /\ cstmt.node.kind = "program"
                /\ k > 1
                /\ StructHelperHead(cx.writer.file[k - 1])

\* no line of the output holds a direct assignment
NoDirectAssignment ==
    cstmt # NULL =>
        \A k \in cstmt.from .. Len(cx.writer.file) :
            ~Occurs(cx.writer.file[k], "*dst = value")

-----------------------------------------------------------------------------
(* The parser                                                                *)
(*                                                                           *)
(* The parser holds three tokens: previous, current and next.  It has        *)
(* fetched the tokens toks[1 .. Len(toks)] from the lexer; its position i    *)
(* says that current is toks[i], so that next is toks[i + 1].  parser_error  *)
(* prints one diagnostic and exits: a parser whose status is "error" is the  *)
(* parser of a process that has exited.  A parser whose status is "more"     *)
(* stands in the call of lexer_next_token that parser_init or parser_advance *)
(* makes for a token that has not been fetched yet.  Every operator leaves   *)
(* a parser that is not "ok" as it is.  A parse function answers with the    *)
(* parser it leaves and with what it returns.                                *)

Parsed(p, out) == [p |-> p, out |-> out]

ParserOk(p) == p.status = "ok"

\* what a parse function returns once it has made its node
Made(p, node) == IF ParserOk(p) THEN Parsed(p, node) ELSE Parsed(p, NULL)

\* parser->current
current(p) == toks[p.i]

\* parser->previous, which parser_init sets to an EOF token at 0:0
previous(p) ==
    IF p.i = 1
    THEN [type |-> "EOF", lexeme |-> "", length |-> 0, line |-> 0, column |-> 0]
    ELSE toks[p.i - 1]

\* the token of a node: the line and the column of the Token it was created
\* from
TokOf(t) == Tok(t.line, t.column)

parser_init ==
    IF Len(toks) < 2
    THEN [i |-> 1, status |-> "more", err |-> NoErr]
    ELSE [i |-> 1, status |-> "ok", err |-> NoErr]

parser_advance(p) ==
    IF ~ParserOk(p) THEN p
    ELSE IF Len(toks) < p.i + 2 THEN [p EXCEPT !.status = "more"]
    ELSE [p EXCEPT !.i = @ + 1]

parser_check(p, type) == ParserOk(p) /\ current(p).type = type

parser_match(p, type) == IF parser_check(p, type) THEN parser_advance(p) ELSE p

\* parser_error(token, message)
parser_error_at(p, token, message) ==
    IF ~ParserOk(p) THEN p
    ELSE [p EXCEPT !.status = "error",
                   !.err = [msg |-> message, line |-> token.line, col |-> token.column]]

\* parser_error(parser->current, message)
parser_error(p, message) ==
    IF ~ParserOk(p) THEN p ELSE parser_error_at(p, current(p), message)

\* parser_consume; the token it returns is current(p)
parser_consume(p, type, message) ==
    IF parser_check(p, type) THEN parser_advance(p) ELSE parser_error(p, message)

RECURSIVE parser_skip_newlines(_)
parser_skip_newlines(p) ==
    IF parser_check(p, "NEWLINE") THEN parser_skip_newlines(parser_advance(p)) ELSE p

parser_require_line_break(p, message) ==
    IF parser_check(p, "NEWLINE") THEN parser_skip_newlines(parser_advance(p))
    ELSE IF parser_check(p, "DEDENT") \/ parser_check(p, "EOF") THEN p
    ELSE parser_error(p, message)

\* the token types a type fragment is made of
TypeTokens == {"IDENT", "NULL", "COMMA", "LBRACKET", "RBRACKET", "DOT"}

\* parser_collect_type returns the text its builder holds; collect_loop is
\* its while (true) loop
parser_collect_type(p, terminators) ==
    LET RECURSIVE collect_loop(_, _, _, _)
        collect_loop(q, bracket_depth, text, collected) ==
            IF ~ParserOk(q) THEN Parsed(q, text)
            ELSE
            LET type == current(q).type
                is_terminator == type \in terminators
                finish == IF collected THEN Parsed(q, text)
                          ELSE Parsed(parser_error(q, "expected type name"), text)
                depth == IF type = "LBRACKET" THEN bracket_depth + 1
                         ELSE IF type = "RBRACKET" THEN bracket_depth - 1
                         ELSE bracket_depth
            IN  IF type = "EOF" THEN finish
                ELSE IF type \in {"NEWLINE", "DEDENT"} /\ bracket_depth = 0
                THEN IF ~is_terminator
                     THEN Parsed(parser_error(q, "unexpected line break in type"), text)
                     ELSE finish
                ELSE IF is_terminator /\ bracket_depth = 0 THEN finish
                ELSE IF type = "RBRACKET" /\ bracket_depth = 0
                THEN Parsed(parser_error(q, "unmatched ']' in type"), text)
                ELSE IF type \notin TypeTokens /\ depth = 0
                THEN Parsed(parser_error(q, "unexpected token in type"), text)
                ELSE collect_loop(parser_advance(q), depth,
                                  text \o current(q).lexeme, TRUE)
    IN  collect_loop(p, 0, "", FALSE)

\* parse_import; import_segments is its loop over the segments of the path
parse_import(p) ==
    LET RECURSIVE import_segments(_)
        import_segments(q) ==
            LET more(p1) == IF parser_check(p1, "DOT")
                            THEN import_segments(parser_advance(p1))
                            ELSE p1
            IN  more(parser_consume(q, "IDENT", "expected identifier in import path"))
    IN  parser_require_line_break(
            import_segments(parser_consume(p, "IMPORT", "expected 'import'")),
            "expected newline after import statement")

\* parse_expression, parse_statement and parse_block call one another:
\* parse_rule stands for the call of the one that rule names
RECURSIVE parse_rule(_, _)

parse_primary(p) ==
    IF ~ParserOk(p) THEN Parsed(p, NULL)
    ELSE
    LET t == current(p)
        closed(expr) ==
            Made(parser_consume(expr.p, "RPAREN", "expected ')' after expression"),
                 expr.out)
    IN  CASE t.type = "INT" ->
                Made(parser_advance(p), LiteralOf("int", t.lexeme, FALSE, TokOf(t)))
          [] t.type = "FLOAT" ->
                Made(parser_advance(p), LiteralOf("float", t.lexeme, FALSE, TokOf(t)))
          [] t.type = "STRING" ->
                Made(parser_advance(p), LiteralOf("string", t.lexeme, FALSE, TokOf(t)))
          [] t.type = "TRUE" ->
                Made(parser_advance(p), LiteralOf("bool", "NULL", TRUE, TokOf(t)))
          [] t.type = "FALSE" ->
                Made(parser_advance(p), LiteralOf("bool", "NULL", FALSE, TokOf(t)))
          [] t.type = "NULL" ->
                Made(parser_advance(p), LiteralOf("null", "NULL", FALSE, TokOf(t)))
          [] t.type = "IDENT" ->
                Made(parser_advance(p), Identifier(t.lexeme, TokOf(t)))
          [] t.type = "LPAREN" -> closed(parse_rule("expression", parser_advance(p)))
          [] OTHER -> Parsed(parser_error(p, "unexpected token in expression"), NULL)

\* finish_call; call_arguments is its loop over the arguments, with those
\* parsed so far
finish_call(p, callee) ==
    LET RECURSIVE call_arguments(_, _)
        call_arguments(q, arguments) ==
            LET more(argument) ==
                    IF ~ParserOk(argument.p) THEN Parsed(argument.p, arguments)
                    ELSE IF parser_check(argument.p, "COMMA")
                    THEN call_arguments(parser_advance(argument.p),
                                        Append(arguments, argument.out))
                    ELSE Parsed(argument.p, Append(arguments, argument.out))
            IN  more(parse_rule("expression", q))
        closed(args) ==
            Made(parser_consume(args.p, "RPAREN", "expected ')' after arguments"),
                 Call(callee, args.out, TokOf(previous(p))))
    IN  IF ~ParserOk(p) THEN Parsed(p, NULL)
        ELSE closed(IF ~parser_check(p, "RPAREN") THEN call_arguments(p, <<>>)
                    ELSE Parsed(p, <<>>))

\* parse_call; call_loop is its while loop, with the expression parsed so far
parse_call(p) ==
    LET RECURSIVE call_loop(_)
        call_loop(r) ==
            IF parser_check(r.p, "LPAREN")
            THEN call_loop(finish_call(parser_advance(r.p), r.out))
            ELSE r
    IN  call_loop(parse_primary(p))

\* the operators of the four levels of binary expressions: parse_equality,
\* parse_comparison, parse_term and parse_factor
BinaryOps(level) ==
    CASE level = 1 -> {"EQEQ", "BANGEQ"}
      [] level = 2 -> {"LT", "LTE", "GT", "GTE"}
      [] level = 3 -> {"PLUS", "MINUS"}
      [] level = 4 -> {"STAR", "SLASH"}

\* parse_equality (level 1), parse_comparison (2), parse_term (3) and
\* parse_factor (4): an operand is an expression of the next level, a call
\* for parse_factor; binary_loop is the while loop, with the expression
\* parsed so far
RECURSIVE parse_binary(_, _)
parse_binary(p, level) ==
    LET parse_operand(q) ==
            IF level = 4 THEN parse_call(q) ELSE parse_binary(q, level + 1)
        RECURSIVE binary_loop(_)
        binary_loop(r) ==
            LET op_token == current(r.p)
                more(right) ==
                    IF ~ParserOk(right.p) THEN Parsed(right.p, NULL)
                    ELSE binary_loop(Parsed(right.p,
                                            Binary(r.out, op_token.type, right.out,
                                                   TokOf(op_token))))
            IN  IF ~ParserOk(r.p) THEN r
                ELSE IF op_token.type \notin BinaryOps(level) THEN r
                ELSE more(parse_operand(parser_advance(r.p)))
    IN  binary_loop(parse_operand(p))

parse_expression(p) == parse_binary(p, 1)

parse_var_decl(p, is_mutable) ==
    LET name_token == current(p)
        typed(type_name) ==
            LET initialized(initializer) ==
                    Made(parser_require_line_break(
                             initializer.p, "expected newline after variable declaration"),
                         VarDecl(name_token.lexeme, is_mutable, type_name.out,
                                 initializer.out, TokOf(name_token)))
            IN  initialized(
                    parse_rule("expression",
                               parser_consume(type_name.p, "EQUAL",
                                              "expected '=' before initializer")))
    IN  typed(parser_collect_type(
                  parser_consume(
                      parser_consume(p, "IDENT",
                                     IF is_mutable THEN "expected identifier after 'mut'"
                                     ELSE "expected identifier in variable declaration"),
                      "COLON", "expected ':' in variable declaration"),
                  {"EQUAL"}))

parse_assignment(p) ==
    LET name_token == current(p)
        assigned(value) ==
            Made(parser_require_line_break(value.p, "expected newline after assignment"),
                 Assign(name_token.lexeme, value.out, TokOf(name_token)))
    IN  assigned(
            parse_rule("expression",
                       parser_consume(
                           parser_consume(p, "IDENT", "expected identifier for assignment"),
                           "EQUAL", "expected '=' in assignment")))

parse_return(p) ==
    LET returned(value) ==
            Made(parser_require_line_break(value.p, "expected newline after return"),
                 Return(value.out, TokOf(previous(p))))
    IN  IF ~ParserOk(p) THEN Parsed(p, NULL)
        ELSE returned(IF current(p).type \notin {"NEWLINE", "DEDENT", "EOF"}
                      THEN parse_rule("expression", p) ELSE Parsed(p, NULL))

parse_expr_stmt(p) ==
    LET stated(expr) ==
            Made(parser_require_line_break(expr.p, "expected newline after expression"),
                 ExprStmt(expr.out))
    IN  stated(parse_rule("expression", p))

\* an if statement with its blocks
IfOf(condition, then_block, has_else, else_block, tok) ==
    [kind |-> "if", condition |-> condition, has_else |-> has_else, tok |-> tok,
     then_block |-> then_block, else_block |-> else_block]

parse_if_stmt(p) ==
    LET conditioned(condition) ==
            LET then_parsed(then_block) ==
                    LET skipped(p1) ==
                            LET else_parsed(else_block) ==
                                    Made(else_block.p,
                                         IfOf(condition.out, then_block.out,
                                              parser_check(p1, "ELSE"), else_block.out,
                                              TokOf(previous(p))))
                            IN  else_parsed(IF parser_check(p1, "ELSE")
                                            THEN parse_rule("block", parser_advance(p1))
                                            ELSE Parsed(p1, <<>>))
                    IN  skipped(parser_skip_newlines(then_block.p))
            IN  then_parsed(parse_rule("block", condition.p))
    IN  IF ~ParserOk(p) THEN Parsed(p, NULL)
        ELSE conditioned(parse_rule("expression", p))

parse_for_stmt(p) ==
    LET looped(body) == Made(body.p, For(TokOf(previous(p))))
    IN  IF ~ParserOk(p) THEN Parsed(p, NULL)
        ELSE looped(
                 parse_rule("block",
                     parse_rule("expression",
                         parser_consume(
                             parser_consume(p, "IDENT", "expected loop iterator name"),
                             "IN", "expected 'in' after loop iterator")).p))

parse_statement(p) ==
    IF ~ParserOk(p) THEN Parsed(p, NULL)
    ELSE LET type == current(p).type
         IN  CASE type = "IF" -> parse_if_stmt(parser_advance(p))
               [] type = "FOR" -> parse_for_stmt(parser_advance(p))
               [] type = "MUT" -> parse_var_decl(parser_advance(p), TRUE)
               [] type = "RETURN" -> parse_return(parser_advance(p))
               [] type = "IDENT" /\ toks[p.i + 1].type = "COLON" -> parse_var_decl(p, FALSE)
               [] type = "IDENT" /\ toks[p.i + 1].type = "EQUAL" -> parse_assignment(p)
               [] OTHER -> parse_expr_stmt(p)

\* parse_block; block_statements is its while loop, with the statements
\* parsed so far
parse_block(p) ==
    LET RECURSIVE block_statements(_, _)
        block_statements(q, statements) ==
            LET more(stmt) ==
                    IF ~ParserOk(stmt.p) THEN Parsed(stmt.p, statements)
                    ELSE block_statements(parser_skip_newlines(stmt.p),
                                          Append(statements, stmt.out))
            IN  IF ~ParserOk(q) \/ parser_check(q, "DEDENT") \/ parser_check(q, "EOF")
                THEN Parsed(q, statements)
                ELSE more(parse_rule("statement", q))
        closed(body) ==
            Parsed(parser_consume(body.p, "DEDENT", "expected dedent to close block"),
                   body.out)
    IN  closed(block_statements(
                   parser_skip_newlines(
                       parser_consume(
                           parser_consume(p, "NEWLINE", "expected newline before block"),
                           "INDENT", "expected indentation to start block")),
                   <<>>))

parse_rule(rule, p) ==
    CASE rule = "expression" -> parse_expression(p)
      [] rule = "statement" -> parse_statement(p)
      [] rule = "block" -> parse_block(p)

\* the list that follows an opening parenthesis, if it is not empty
ListOf(p, list) == IF ParserOk(p) /\ ~parser_check(p, "RPAREN") THEN list ELSE Parsed(p, <<>>)

\* parse_function_params returns the parameters and the return type it has
\* set; param_types and param_names are its loops over the parameter types
\* and over the parameter names
parse_function_params(p) ==
    LET RECURSIVE param_types(_, _)
        param_types(q, type_strings) ==
            LET more(type_name) ==
                    IF parser_check(type_name.p, "COMMA")
                    THEN param_types(parser_advance(type_name.p),
                                     Append(type_strings, type_name.out))
                    ELSE Parsed(type_name.p, Append(type_strings, type_name.out))
            IN  more(parser_collect_type(q, {"COMMA", "RPAREN"}))
        RECURSIVE param_names(_, _, _)
        param_names(q, type_strings, params) ==
            LET name_token == current(q)
                index == Len(params)
                added == Append(params, Param(name_token.lexeme, type_strings[index + 1],
                                              TokOf(name_token)))
                more(p1) ==
                    IF ~ParserOk(p1) THEN Parsed(p1, params)
                    ELSE IF index >= Len(type_strings)
                    THEN Parsed(parser_error_at(p1, name_token, "missing parameter type"),
                                params)
                    ELSE IF parser_check(p1, "COMMA")
                    THEN param_names(parser_advance(p1), type_strings, added)
                    ELSE Parsed(p1, added)
            IN  more(parser_consume(q, "IDENT", "expected parameter name"))
        typed(types) ==
            LET returning(return_type) ==
                    LET named(names) ==
                            LET counted(p1) ==
                                    IF ParserOk(p1) /\ Len(names.out) # Len(types.out)
                                    THEN parser_error(
                                             p1, "mismatched parameter types and names")
                                    ELSE p1
                            IN  Parsed(counted(
                                           parser_consume(
                                               names.p, "RPAREN",
                                               "expected ')' after parameter names")),
                                       [params |-> names.out,
                                        return_type |-> return_type.out])
                        opened(p1) == ListOf(p1, param_names(p1, types.out, <<>>))
                    IN  named(opened(
                                  parser_consume(
                                      parser_consume(
                                          return_type.p, "EQUAL",
                                          "expected '=' before parameter names"),
                                      "LPAREN", "expected '(' before parameter names")))
            IN  returning(
                    parser_collect_type(
                        parser_consume(
                            parser_consume(types.p, "RPAREN",
                                           "expected ')' after parameter types"),
                            "ARROW", "expected '->' before return type"),
                        {"EQUAL"}))
        opened(p1) == ListOf(p1, param_types(p1, <<>>))
    IN  typed(opened(
                  parser_consume(
                      parser_consume(p, "COLON", "expected ':' after function name"),
                      "LPAREN", "expected '(' before parameter type list")))

\* a function declaration with the body ast_function_decl_set_body has
\* given it
FunctionWithBody(name, return_type, params, body, tok) ==
    [kind |-> "function", name |-> name, return_type |-> return_type,
     params |-> params, tok |-> tok, body |-> body]

parse_function_decl(p, name_token) ==
    LET headed(head) ==
            LET bodied(body) ==
                    Made(body.p,
                         FunctionWithBody(name_token.lexeme, head.out.return_type,
                                          head.out.params, body.out, TokOf(name_token)))
            IN  bodied(parse_rule("block", head.p))
    IN  headed(parse_function_params(p))

\* parse_struct_decl; struct_fields is its loop over the fields, with those
\* parsed so far
parse_struct_decl(p) ==
    LET RECURSIVE struct_fields(_, _)
        struct_fields(q, fields) ==
            LET field_name == current(q)
                typed(type_name) ==
                    LET more(p1) ==
                            IF ~ParserOk(p1) THEN Parsed(p1, fields)
                            ELSE struct_fields(
                                     parser_skip_newlines(p1),
                                     Append(fields,
                                            StructField(field_name.lexeme, type_name.out,
                                                        TokOf(field_name))))
                    IN  more(parser_require_line_break(
                                 type_name.p, "expected newline after struct field"))
            IN  IF ~ParserOk(q) \/ parser_check(q, "DEDENT") \/ parser_check(q, "EOF")
                THEN Parsed(q, fields)
                ELSE typed(parser_collect_type(
                               parser_consume(
                                   parser_consume(q, "IDENT", "expected field name"),
                                   "COLON", "expected ':' after field name"),
                               {"NEWLINE", "DEDENT"}))
        named(p1) ==
            LET closed(fields) ==
                    Made(parser_consume(fields.p, "DEDENT",
                                        "expected dedent after struct body"),
                         StructDecl(current(p1).lexeme, fields.out, TokOf(current(p1))))
            IN  closed(struct_fields(
                           parser_skip_newlines(
                               parser_consume(
                                   parser_consume(
                                       parser_consume(p1, "IDENT", "expected struct name"),
                                       "NEWLINE", "expected newline after struct name"),
                                   "INDENT", "expected indent before struct body")),
                           <<>>))
    IN  named(parser_consume(p, "STRUCT", "expected 'struct'"))

parse_top_level_decl(p) ==
    LET declared(p1) ==
            IF ~ParserOk(p1) THEN Parsed(p1, NULL)
            ELSE IF parser_check(p1, "STRUCT") THEN parse_struct_decl(p1)
            ELSE parse_function_decl(
                     parser_consume(p1, "IDENT", "expected identifier for declaration"),
                     current(p1))
    IN  declared(parser_match(p, "PUB"))

\* parse_program on the tokens that have been fetched; program_loop is its
\* while loop, with the number of imports and the declarations parsed so far
parse_program ==
    LET RECURSIVE program_loop(_, _, _, _)
        program_loop(p, imports, declarations, accepting_imports) ==
            LET more(decl) ==
                    IF ~ParserOk(decl.p)
                    THEN Parsed(decl.p,
                                [imports |-> imports, declarations |-> declarations])
                    ELSE program_loop(parser_skip_newlines(decl.p), imports,
                                      Append(declarations, decl.out), FALSE)
            IN  IF ~ParserOk(p) \/ parser_check(p, "EOF")
                THEN Parsed(p, [imports |-> imports, declarations |-> declarations])
                ELSE IF parser_check(p, "IMPORT")
                THEN IF ~accepting_imports
                     THEN program_loop(
                              parser_error(p, "imports must appear before declarations"),
                              imports, declarations, accepting_imports)
                     ELSE program_loop(parser_skip_newlines(parse_import(p)),
                                       imports + 1, declarations, accepting_imports)
                ELSE more(parse_top_level_decl(p))
    IN  program_loop(parser_skip_newlines(parser_init), 0, <<>>, TRUE)

-----------------------------------------------------------------------------
(* Sema on a parsed program                                                  *)

\* the for loop of sema_check_block over the statements of a block, from
\* statement i on; the blocks of an if statement own their scopes
RECURSIVE sema_check_block(_, _, _)
sema_check_block(ctx, statements, i) ==
    LET node == statements[i]
        left(c) == IF c.err # NoErr THEN c ELSE sema_pop_scope(c)
        else_checked(c) == sema_check_block(c, statements, i + 1)
        then_checked(c) ==
            else_checked(IF node.has_else /\ c.err = NoErr
                         THEN left(sema_check_block(sema_push_scope(c),
                                                    node.else_block, 1))
                         ELSE c)
        checked(c) ==
            IF node.kind # "if" \/ c.err # NoErr
            THEN sema_check_block(c, statements, i + 1)
            ELSE then_checked(left(sema_check_block(c, node.then_block, 1)))
    IN  IF ctx.err # NoErr \/ i > Len(statements) THEN ctx
        ELSE checked(sema_check_statement(ctx, node))

\* sema_check_declaration
sema_check_declaration(ctx, node) ==
    LET left(c) ==
            IF c.err # NoErr THEN c
            ELSE [sema_pop_scope(c) EXCEPT
                     !.current_function = ctx.current_function,
                     !.current_flow_mode = ctx.current_flow_mode]
    IN  IF ctx.err # NoErr THEN ctx
        ELSE IF node.kind = "struct" THEN sema_check_struct(ctx, node, 1)
        ELSE left(sema_check_block(
                      sema_check_params(sema_check_function(ctx, node), node.params, 1),
                      node.body, 1))

\* the second loop of sema_check_program, from declaration i on
RECURSIVE sema_check_declarations(_, _, _)
sema_check_declarations(ctx, declarations, i) ==
    IF i > Len(declarations) THEN ctx
    ELSE sema_check_declarations(sema_check_declaration(ctx, declarations[i]),
                                 declarations, i + 1)

sema_check_program(declarations) ==
    sema_check_declarations(
        sema_register_functions(sema_register_builtins(sema_context_init),
                                declarations, 1),
        declarations, 1)

-----------------------------------------------------------------------------
(* The front-end specification: main reads a source, parse_program fetches   *)
(* its tokens from the lexer one by one as it needs them, and                *)
(* sema_check_program checks the program that it returns.  The sources are   *)
(* the program of the immutable-assignment scenario and its variations: the  *)
(* width of the indentation, the declaration of the second line and the      *)
(* statement of the third.                                                   *)

ScenarioHead == "main: () -> null = ()"

ScenarioIndents == {"  ", "    "}

ScenarioDecls == {"x: int = 1", "mut x: int = 1", "xy: int = 1"}

ScenarioStmts == {"x = 2", "xy = 2", "x = ", "x", "x: int = 2"}

Scenario(indent, decl, stmt) ==
    ScenarioHead \o "\n" \o indent \o decl \o "\n" \o indent \o stmt \o "\n"

ScenarioSources ==
    {Scenario(indent, decl, stmt) :
        indent \in ScenarioIndents, decl \in ScenarioDecls, stmt \in ScenarioStmts}

\* what the bytes behind the buffer may hold
FrontBeyondBytes == {NUL, "x", "!"}

FrontInit ==
    /\ src \in ScenarioSources
    /\ beyond \in [1 .. MaxBeyond -> FrontBeyondBytes]
    /\ lx = lexer_create
    /\ toks = <<>>
    /\ lstatus = "run"
    /\ lexerr = NoErr
    /\ decls = <<>>
    /\ sx = sema_context_init
    /\ sctl = [phase |-> "parse", err |-> NoErr, imports |-> 0]
    /\ sstmt = NULL
    /\ ftypes = {}
    /\ CgIdle

\* the call of lexer_next_token that parser_init or parser_advance makes
ParserFetch ==
    /\ sctl.phase = "parse"
    /\ lstatus = "run"
    /\ parse_program.p.status = "more"
    /\ LET r == lexer_next_token(lx)
       IN  /\ lx' = r.lx
           /\ IF r.err # NoErr
              THEN /\ lexerr' = r.err
                   /\ lstatus' = "error"
                   /\ toks' = toks
              ELSE /\ lexerr' = lexerr
                   /\ lstatus' = lstatus
                   /\ toks' = Append(toks, r.tok)
    /\ UNCHANGED <<src, beyond>>
    /\ UNCHANGED semavars
    /\ UNCHANGED cgvars

\* parser_error: the parser prints its diagnostic and exits
ParserError ==
    /\ sctl.phase = "parse"
    /\ lstatus = "run"
    /\ parse_program.p.status = "error"
    /\ sctl' = [sctl EXCEPT !.phase = "parse_error", !.err = parse_program.p.err]
    /\ UNCHANGED <<decls, sx, sstmt, ftypes>>
    /\ UNCHANGED lexvars
    /\ UNCHANGED cgvars

\* parse_program returns the program to main
ParseProgram ==
    /\ sctl.phase = "parse"
    /\ lstatus = "run"
    /\ parse_program.p.status = "ok"
    /\ decls' = parse_program.out.declarations
    /\ sctl' = [sctl EXCEPT !.phase = "sema", !.imports = parse_program.out.imports]
    /\ UNCHANGED <<sx, sstmt, ftypes>>
    /\ UNCHANGED lexvars
    /\ UNCHANGED cgvars

\* sema_check_program: it returns, or sema_error prints the diagnostic of
\* the first violation and exits
SemaCheckProgram ==
    /\ sctl.phase = "sema"
    /\ LET ctx == sema_check_program(decls)
       IN  /\ sx' = ctx
           /\ sctl' = [sctl EXCEPT !.phase = IF ctx.err # NoErr THEN "sema_error"
                                             ELSE "sema_done",
                                   !.err = ctx.err]
    /\ UNCHANGED <<decls, sstmt, ftypes>>
    /\ UNCHANGED lexvars
    /\ UNCHANGED cgvars

FrontNext ==
    \/ ParserFetch
    \/ ParserError
    \/ ParseProgram
    \/ SemaCheckProgram

SpecFront == FrontInit /\ [][FrontNext]_vars

-----------------------------------------------------------------------------
(* Claims about the front end *)

\* the position in src at which line n begins
LineStart(n) ==
    CHOOSE p \in 0 .. Len(src) : LineOf(p) = n /\ (p = 0 \/ ByteAt(p - 1) = "\n")

\* the three-line program of the immutable-assignment scenario
ImmutableScenario == Scenario("    ", "x: int = 1", "x = 2")

\* C9: the location that sema prints in a diagnostic is the line and the
\* 1-based column at which the offending token begins.  In every source of
\* the front-end specification the offending token is the first of its
\* line, so its column is one more than the width of the indentation of the
\* line; for the program of the immutable-assignment scenario, whose third
\* line is four spaces followed by `x = 2`, sema prints
\* `[line 3:5] Semantic error: cannot assign to immutable variable`.
C9_DiagnosticAtTokenStart ==
    sctl.phase = "sema_error" =>
        /\ sctl.err.col = LeadingWidth(LineStart(sctl.err.line)) + 1
        /\ (src = ImmutableScenario =>
               sctl.err = [msg |-> ImmutableMsg, line |-> 3, col |-> 5])

-----------------------------------------------------------------------------
(* Claims about identifiers *)

\* name is bound in some frame of the scope stack of ctx
InScopeStack(ctx, name) ==
    \E s \in 1 .. Len(ctx.scopes) :
        \E i \in 1 .. Len(ctx.scopes[s]) : ctx.scopes[s][i].name = name

\* name is in the function table of ctx
InFunctionTable(ctx, name) ==
    \E i \in 1 .. Len(ctx.functions) : ctx.functions[i].name = name

UndeclaredIdentifierMsg == "undeclared identifier"

UndefinedFunctionMsg == "call to undefined function"

\* the step in which sema checks an expression statement
ExprStmtChecked ==
    /\ sctl'.nitems = sctl.nitems + 1
    /\ sstmt'.kind = "expr_stmt"

\* the function table holds log and every function of the program while
\* the declarations are checked
FunctionTableComplete ==
    sctl.phase \in {"decl", "fn"} =>
        /\ InFunctionTable(sx, "log")
        /\ \A i \in 1 .. Len(decls) : InFunctionTable(sx, decls[i].name)

\* an identifier other than the concurrency names is accepted exactly if it
\* is bound, and is otherwise rejected as undeclared
IdentifierStep ==
    (/\ ExprStmtChecked
     /\ sstmt'.expr.kind = "identifier"
     /\ ~sema_is_concurrency_keyword(sstmt'.expr.name)) =>
        /\ (sx'.err = NoErr) <=>
               (InScopeStack(sx, sstmt'.expr.name) \/ InFunctionTable(sx, sstmt'.expr.name))
        /\ sx'.err # NoErr => sx'.err.msg = UndeclaredIdentifierMsg

\* a concurrency name is rejected, bound or not
ConcurrencyNameStep ==
    (/\ ExprStmtChecked
     /\ sstmt'.expr.kind = "identifier"
     /\ sema_is_concurrency_keyword(sstmt'.expr.name)) =>
        sx'.err.msg = ConcurrencyMsg

\* a callee that is bound nowhere is rejected as an undefined function
CalleeStep ==
    (/\ ExprStmtChecked
     /\ sstmt'.expr.kind = "call"
     /\ sstmt'.expr.callee.kind = "identifier"
     /\ ~sema_is_concurrency_keyword(sstmt'.expr.callee.name)
     /\ ~InScopeStack(sx, sstmt'.expr.callee.name)
     /\ ~InFunctionTable(sx, sstmt'.expr.callee.name)) =>
        sx'.err.msg = UndefinedFunctionMsg

\* C11, as the code has it: an identifier expression whose name is not one
\* of `task`, `future` and `chan` is accepted by sema if and only if its
\* name is bound in some frame of the scope stack or is in the function
\* table, and is otherwise rejected with "undeclared identifier"; one of
\* those three names is rejected with the concurrency message even if it is
\* bound; a callee that is bound nowhere is rejected with "call to undefined
\* function".  The function table holds `log` and every top-level function
\* of the program before any body is checked, so that a reference to a
\* function declared later in the file is accepted.
C11_IdentifierLookup ==
    /\ []FunctionTableComplete
    /\ [][IdentifierStep /\ ConcurrencyNameStep /\ CalleeStep]_vars

\* C11 has happened: in the body of f, the first of two functions, the
\* identifier main, which is declared after f, has been accepted
C11_Witness ==
    /\ Len(decls) = 2
    /\ decls[2].name = "main"
    /\ sctl.phase = "fn"
    /\ sctl.idx = 1
    /\ sstmt.kind = "expr_stmt"
    /\ sstmt.expr.kind = "identifier"
    /\ sstmt.expr.name = "main"
    /\ ~InScopeStack(sx, "main")
    /\ sx.err = NoErr

\* C11, as it is stated: every identifier used in an expression is accepted
\* if and only if its name is bound in some frame of the scope stack or is
\* in the function table
C11_AsClaimed ==
    [][(ExprStmtChecked /\ sstmt'.expr.kind = "identifier") =>
           ((sx'.err = NoErr) <=>
               (InScopeStack(sx, sstmt'.expr.name)
                \/ InFunctionTable(sx, sstmt'.expr.name)))]_vars

-----------------------------------------------------------------------------
(* The lexer on comments and stray characters: every source up to           *)
(* MaxCharLen characters of CharAlphabet is tokenised by successive calls   *)
(* of lexer_next_token up to the first EOF.                                 *)

\* the longest source this specification draws
MaxCharLen == 4

\* a line break, a letter, the comment character, the two characters of
\* `!=` and a character that no token begins with
CharAlphabet == {"\n", "x", "#", "!", "=", "@"}

RECURSIVE StringsOver(_, _)
StringsOver(alphabet, n) ==
    IF n = 0 THEN {""}
    ELSE {s \o c : s \in StringsOver(alphabet, n - 1), c \in alphabet}

CharSources == UNION {StringsOver(CharAlphabet, n) : n \in 0 .. MaxCharLen}

\* what the bytes behind the buffer may hold
CharBeyondBytes == {NUL, "x", "#"}

CharInit ==
    /\ src \in CharSources
    /\ beyond \in [1 .. MaxBeyond -> CharBeyondBytes]
    /\ lx = lexer_create
    /\ toks = <<>>
    /\ lstatus = "run"
    /\ lexerr = NoErr
    /\ SemaIdle
    /\ CgIdle

SpecChars == CharInit /\ [][LexNext]_vars

-----------------------------------------------------------------------------
(* Claims about comments and stray characters *)

\* src[p] lies in a comment: a `#` stands at or before it on its line
InComment(p) ==
    \E q \in 0 .. p :
        /\ ByteAt(q) = "#"
        /\ \A r \in q .. p : ByteAt(r) # "\n"

\* the position in src of the last character of a token that has one
LastCharOf(tok) == LineStart(tok.line) + tok.column - 2

\* src[p] begins no token of the language
StrayAt(p) ==
    \/ ByteAt(p) = "@"
    \/ ByteAt(p) = "!" /\ ByteAt(p + 1) # "="

\* C12: a `#` starts a comment that runs to the end of its line and is
\* equivalent to whitespace: the lexer returns no token for the `#` or for
\* any character after it up to, but not including, the newline.  No token
\* that the lexer has returned for characters of the source ends on a
\* character of a comment.
C12_CommentsSkipped ==
    \A i \in 1 .. Len(toks) :
        (/\ toks[i].type \notin {"NEWLINE", "INDENT", "DEDENT", "EOF"}
         /\ LastCharOf(toks[i]) < Len(src)) =>
            ~InComment(LastCharOf(toks[i]))

\* C13: every character that begins no token of the language, a `!` that is
\* not followed by `=` among them, makes the lexer report a located message
\* and terminate compilation; none is silently skipped.  The lexer reaches
\* the end of no source that holds such a character outside a comment.
C13_StrayCharacterReported ==
    lstatus = "eof" =>
        \A p \in 0 .. Len(src) - 1 : StrayAt(p) => InComment(p)

-----------------------------------------------------------------------------
(* The type specification: sema_check_program checks a program that the     *)
(* parser has returned: a struct S with one field, and a function f with    *)
(* one parameter, whose body declares a variable and states an expression.  *)
(* The four type names and the expression are drawn.                        *)

\* the type names drawn: a supported one, the two concurrency types, and
\* types that hold a concurrency type as an argument
TypeNames == {"int", "chan[int]", "future[int]", "maybe[chan[int]]", "maybe[future]"}

\* the expressions drawn for the statement
TypeExprs(tok) == {Literal(tok), Identifier("a", tok), Identifier("chan", tok),
                   Identifier("future", tok)}

\* struct S          f: (p) -> r = (a)
\*   a: s              v: t = 1
\*                     e
TypeProgram(s, p, r, t, e) ==
    <<StructDecl("S", <<StructField("a", s, Tok(2, 4))>>, Tok(1, 9)),
      FunctionWithBody("f", r, <<Param("a", p, Tok(4, Len(p) + Len(r) + 14))>>,
                       <<VarDecl("v", FALSE, t, Literal(Tok(5, Len(t) + 9)), Tok(5, 4)),
                         ExprStmt(e)>>,
                       Tok(4, 2))>>

TypePrograms ==
    {TypeProgram(s, p, r, t, e) :
        s \in {"int", "chan[int]", "maybe[chan[int]]"}, p \in TypeNames,
        r \in TypeNames, t \in TypeNames, e \in TypeExprs(Tok(6, 4))}

TypesInit ==
    /\ decls \in TypePrograms
    /\ sx = sema_context_init
    /\ sctl = [phase |-> "sema", err |-> NoErr, imports |-> 0]
    /\ sstmt = NULL
    /\ ftypes = {}
    /\ LexIdle
    /\ CgIdle

SpecTypes == TypesInit /\ [][SemaCheckProgram]_vars

-----------------------------------------------------------------------------
(* Claims about the concurrency filter *)

\* word occurs somewhere in text
Mentions(text, word) ==
    \E i \in 1 .. Len(text) - Len(word) + 1 :
        SubSeq(text, i, i + Len(word) - 1) = word

\* a future or chan type occurs somewhere in the type
HoldsConcurrencyType(type_name) ==
    Mentions(type_name, "future") \/ Mentions(type_name, "chan")

\* the type names of a declaration: of the fields of a struct; of a
\* function, its return type and the types of its parameters and variables
TypeNamesOf(decl) ==
    IF decl.kind = "struct"
    THEN {decl.fields[i].type_name : i \in 1 .. Len(decl.fields)}
    ELSE {decl.return_type}
         \cup {decl.params[i].type_name : i \in 1 .. Len(decl.params)}
         \cup {decl.body[i].type_name :
                  i \in {j \in 1 .. Len(decl.body) : decl.body[j].kind = "var_decl"}}

\* the names that the expression statements of a function use as identifiers
IdentifiersOf(decl) ==
    IF decl.kind = "struct" THEN {}
    ELSE {decl.body[i].expr.name :
             i \in {j \in 1 .. Len(decl.body) :
                       /\ decl.body[j].kind = "expr_stmt"
                       /\ decl.body[j].expr.kind = "identifier"}}

\* C14: sema rejects, with "concurrency is not supported by the current
\* backend", every program in which a return type, a parameter type, a
\* variable type or a struct field type is a future or chan type, wherever
\* in the type it occurs, and every program that uses `task`, `future` or
\* `chan` as an identifier.
C14_ConcurrencyRejected ==
    (/\ sctl.phase \in {"sema_done", "sema_error"}
     /\ \E i \in 1 .. Len(decls) :
           \/ \E type_name \in TypeNamesOf(decls[i]) : HoldsConcurrencyType(type_name)
           \/ \E name \in IdentifiersOf(decls[i]) : name \in {"task", "future", "chan"}) =>
        sctl.err.msg = ConcurrencyMsg

-----------------------------------------------------------------------------
(* Codegen on a whole program                                                *)

\* the for loop of cg_emit_block and of cg_emit_function_body over the
\* statements of a block, from statement i on; an if statement emits its
\* blocks with the tail it was given
RECURSIVE cg_emit_statements(_, _, _, _, _)
cg_emit_statements(ctx, statements, i, tail_var, tail_helper) ==
    LET node == statements[i]
        is_last == i = Len(statements)
        stmt_tail_var == stmt_tail(tail_var, is_last)
        stmt_tail_helper == stmt_tail(tail_helper, is_last)
        block_of(c, block) ==
            cg_emit_block_leave(
                cg_emit_statements(c, block, 1, stmt_tail_var, stmt_tail_helper))
        else_emitted(c) ==
            IF node.has_else THEN block_of(cg_emit_else(c), node.else_block) ELSE c
        emitted(c) ==
            IF node.kind = "if" /\ ~ctx.had_error
            THEN else_emitted(block_of(c, node.then_block))
            ELSE c
    IN  IF i > Len(statements) THEN ctx
        ELSE cg_emit_statements(
                 emitted(cg_emit_statement(ctx, node, stmt_tail_var, stmt_tail_helper)),
                 statements, i + 1, tail_var, tail_helper)

cg_emit_function_body(ctx, fn) ==
    LET stmt_count == Len(fn.body)
        last_kind == IF stmt_count > 0 /\ fn.body[stmt_count].kind = "return"
                     THEN "return" ELSE "other"
        tail == needs_tail_return(ctx, fn, stmt_count, last_kind)
        left(c) == cg_emit_function_body_leave(c, fn, stmt_count, last_kind)
    IN  left(cg_emit_statements(
                 cg_emit_function_body_enter(ctx, fn, stmt_count, last_kind),
                 fn.body, 1,
                 IF tail THEN "__lz_ret" ELSE "NULL",
                 IF tail THEN cg_assign_helper_for(ctx, fn.return_type) ELSE "NULL"))

\* cg_emit_function_definitions, from function i on
RECURSIVE cg_emit_function_definitions(_, _)
cg_emit_function_definitions(ctx, i) ==
    IF i > Len(ctx.functions) THEN ctx
    ELSE cg_emit_function_definitions(
             BlankLine(cg_emit_function_body(
                 [cg_emit_function_signature(ctx, ctx.functions[i], FALSE)
                     EXCEPT !.current_function = ctx.functions[i].decl.name],
                 ctx.functions[i].decl)),
             i + 1)

\* cg_emit_program; it returns !ctx->had_error
cg_emit_program(ctx, declarations) ==
    cg_emit_program_leave(
        cg_emit_function_definitions(cg_emit_program_enter(ctx, declarations), 1))

\* codegen_emit: opened says whether fopen has opened the C file, compiled
\* whether the C compiler that cg_run_clang invokes has succeeded
\* a codegen_emit that runs the C compiler whatever cg_emit_program returned
codegen_emit_compiling(declarations, opened, compiled) ==
    IF ~opened
    THEN [ctx |-> cg_context_init, opened |-> FALSE, ran_clang |-> FALSE, ok |-> FALSE]
    ELSE LET closed(ctx) ==
                 [ctx |-> ctx, opened |-> TRUE, ran_clang |-> TRUE, ok |-> compiled]
         IN  closed(cg_emit_program(cg_context_init, declarations))

codegen_emit(declarations, opened, compiled) ==
    LET closed(ctx) ==
            [ctx |-> ctx, opened |-> TRUE, ran_clang |-> ~ctx.had_error,
             ok |-> ~ctx.had_error /\ compiled]
    IN  IF ~opened
        THEN [ctx |-> cg_context_init, opened |-> FALSE, ran_clang |-> FALSE,
              ok |-> FALSE]
        ELSE closed(cg_emit_program(cg_context_init, declarations))

-----------------------------------------------------------------------------
(* The emission specification: a program as parse_program returns it is      *)
(* handed to sema_check_program and to codegen_emit.  codegen_emit is        *)
(* applied whatever sema says of the program, so that the statements sema    *)
(* rejects reach cg_emit_statement as well.  The programs hold one function  *)
(* whose body is flat, or ends in an if statement, or begins with an if      *)
(* statement that holds another; each statement is on a line of its own.     *)

\* the statements drawn for the bodies and the blocks
EmitStmts(tok) ==
    {VarDecl("x", TRUE, "int", Literal(Tok(tok.line, tok.column + 4)), tok),
     Assign("x", Literal(Tok(tok.line, tok.column + 4)), tok),
     ExprStmt(Literal(tok)),
     Return(NULL, tok),
     For(tok)}

EmitCondition(tok) == LiteralOf("bool", "NULL", TRUE, Tok(tok.line, tok.column + 3))

EmitBodies ==
    {<<s1, s2>> : s1 \in EmitStmts(Tok(2, 5)), s2 \in EmitStmts(Tok(3, 5))}
    \cup
    UNION {{<<s1, IfOf(EmitCondition(Tok(3, 5)), <<s2>>, has_else,
                       IF has_else THEN <<s3>> ELSE <<>>, Tok(3, 5))>> :
               s1 \in EmitStmts(Tok(2, 5)), s2 \in EmitStmts(Tok(4, 9)),
               s3 \in EmitStmts(Tok(6, 9))} : has_else \in BOOLEAN}
    \cup
    {<<IfOf(EmitCondition(Tok(2, 5)),
            <<IfOf(EmitCondition(Tok(3, 9)), <<s1>>, FALSE, <<>>, Tok(3, 9))>>,
            TRUE, <<s2>>, Tok(2, 5)),
       s3>> :
        s1 \in EmitStmts(Tok(4, 13)), s2 \in EmitStmts(Tok(6, 9)),
        s3 \in EmitStmts(Tok(7, 5))}

EmitPrograms ==
    {<<FunctionWithBody("main", return_type, <<>>, body, Tok(1, 1))>> :
        return_type \in {"null", "int"}, body \in EmitBodies}

EmitInit ==
    /\ decls \in EmitPrograms
    /\ sx = sema_context_init
    /\ sctl = [phase |-> "sema", err |-> NoErr, imports |-> 0]
    /\ sstmt = NULL
    /\ ftypes = {}
    /\ cx = cg_context_init
    /\ cctl = [phase |-> "emit", opened |-> FALSE, ran_clang |-> FALSE, ok |-> FALSE]
    /\ cstmt = NULL
    /\ LexIdle

\* codegen_emit on the program
CodegenEmit ==
    /\ cctl.phase = "emit"
    /\ \E opened \in BOOLEAN, compiled \in BOOLEAN :
          LET done(emit) ==
                  /\ cx' = emit.ctx
                  /\ cctl' = [phase |-> "returned", opened |-> emit.opened,
                              ran_clang |-> emit.ran_clang, ok |-> emit.ok]
          IN  done(codegen_emit(decls, opened, compiled))
    /\ UNCHANGED cstmt
    /\ UNCHANGED semavars
    /\ UNCHANGED lexvars

EmitNext ==
    \/ SemaCheckProgram
    \/ CodegenEmit

SpecEmit == EmitInit /\ [][EmitNext]_vars

-----------------------------------------------------------------------------
(* Claims about for statements *)

\* the tokens of the for statements of a block, at any depth
RECURSIVE ForsIn(_)
ForsIn(statements) ==
    UNION {IF statements[i].kind = "for" THEN {statements[i].tok}
           ELSE IF statements[i].kind = "if"
           THEN ForsIn(statements[i].then_block) \cup ForsIn(statements[i].else_block)
           ELSE {} : i \in 1 .. Len(statements)}

\* the tokens of the for statements of the program
ProgramFors == UNION {ForsIn(decls[i].body) : i \in 1 .. Len(decls)}

ForInSemaMsg == "'for in' is not yet supported for this type"

ForInCodegenMsg == "for-in loops are not supported yet"

-----------------------------------------------------------------------------
(* The type-mapping specification: cg_collect_metadata registers the structs *)
(* of a program, and cg_c_type_for or cg_c_return_type_for is asked for the  *)
(* C type of a type name.                                                     *)

\* the names of the structs that the programs declare
MapStructNames == {"P", "results", "maybes"}

\* the type names that codegen is asked for
MapTypeNames ==
    {"int", "float", "bool", "string", "null", "result", "maybe",
     "result[int]", "maybe[int]", "maybe[result[int]]", "T"} \cup MapStructNames

\* a program that declares the structs of the names, one after the other
RECURSIVE MapStructs(_)
MapStructs(names) ==
    IF names = {} THEN <<>>
    ELSE LET name == CHOOSE n \in names : \A o \in names : Len(n) <= Len(o)
         IN  <<StructDecl(name, <<StructField("a", "int", Tok(2, 5))>>, Tok(1, 8))>>
                 \o MapStructs(names \ {name})

MapInit ==
    /\ decls \in {MapStructs(names) : names \in SUBSET MapStructNames}
    /\ sx = NULL
    /\ sctl = NULL
    /\ sstmt = NULL
    /\ ftypes = {}
    /\ cx = cg_context_init
    /\ cctl = [phase |-> "ask"]
    /\ \E type_name \in MapTypeNames, as_return \in BOOLEAN :
          cstmt = [type_name |-> type_name, as_return |-> as_return, c_type |-> "NULL"]
    /\ LexIdle

\* cg_c_type_for, or cg_c_return_type_for, of the type name
CgCType ==
    /\ cctl.phase = "ask"
    /\ LET asked(ctx) ==
               /\ cx' = ctx
               /\ cstmt' = [cstmt EXCEPT !.c_type =
                      IF cstmt.as_return THEN cg_c_return_type_for(ctx, cstmt.type_name)
                      ELSE cg_c_type_for(ctx, cstmt.type_name)]
       IN  asked(cg_collect_metadata(cx, decls, 1))
    /\ cctl' = [phase |-> "answered"]
    /\ UNCHANGED semavars
    /\ UNCHANGED lexvars

SpecMap == MapInit /\ [][CgCType]_vars

-----------------------------------------------------------------------------
(* Claims about the type mapping *)

\* C16: codegen maps every type name to the C type of the mapping table:
\* int to int64_t, float to double, bool to bool, string to
\* `struct lz_string *`, null to `void *` as a value slot and to `void` as a
\* return type, result[...] to lz_result, maybe[...] to lz_maybe, the name
\* of a declared struct to itself, and any other name to itself.
C16_TypeMapping ==
    cctl.phase = "answered" =>
        cstmt.c_type = IF cstmt.as_return /\ cstmt.type_name = "null" THEN "void"
                       ELSE CTypeOf(cstmt.type_name)

-----------------------------------------------------------------------------
(* The identifier specification: inside the body of a function, with the     *)
(* functions of the program registered and the parameters and variables of  *)
(* the function in its scopes, cg_emit_identifier writes an identifier.      *)

\* the names of the identifiers, of the bindings and of the functions
IdentNames == {"x", "y", "log", "f", "main"}

IdentFunctionNames == {"f", "main"}

\* cg_register_function for each of the names
RECURSIVE RegisterAll(_, _)
RegisterAll(ctx, names) ==
    IF names = {} THEN ctx
    ELSE LET name == CHOOSE n \in names : TRUE
         IN  RegisterAll(cg_register_function(
                             ctx, FunctionDeclOf(name, "null", <<>>, Tok(1, 1))),
                         names \ {name})

\* cg_scope_add for each of the names, in the innermost scope
RECURSIVE BindAll(_, _, _)
BindAll(ctx, names, is_mutable) ==
    IF names = {} THEN ctx
    ELSE LET name == CHOOSE n \in names : TRUE
         IN  BindAll(cg_scope_add(ctx, name, "int", is_mutable), names \ {name},
                     is_mutable)

IdentInit ==
    /\ decls = <<>>
    /\ sx = NULL
    /\ sctl = NULL
    /\ sstmt = NULL
    /\ ftypes = {}
    /\ \E functions \in SUBSET IdentFunctionNames, params \in SUBSET {"x", "log"},
          locals \in SUBSET IdentNames :
          cx = BindAll(cg_scope_push(BindAll(cg_scope_push(
                           RegisterAll(cg_context_init, functions)), params, FALSE)),
                       locals, TRUE)
    /\ cctl = [phase |-> "emit"]
    /\ \E name \in IdentNames : cstmt = [name |-> name, text |-> "NULL"]
    /\ LexIdle

\* cg_emit_identifier of the identifier
CgIdentifier ==
    /\ cctl.phase = "emit"
    /\ LET written(ctx) ==
               /\ cx' = ctx
               /\ cstmt' = [cstmt EXCEPT !.text = ctx.writer.pending]
       IN  written(cg_emit_identifier(cx, Identifier(cstmt.name, Tok(2, 5))))
    /\ cctl' = [phase |-> "emitted"]
    /\ UNCHANGED semavars
    /\ UNCHANGED lexvars

SpecIdent == IdentInit /\ [][CgIdentifier]_vars

-----------------------------------------------------------------------------
(* Claims about the emission of identifiers *)

\* C17: codegen writes an identifier according to what it resolves to, the
\* scope stack first and the function table second: the name of a parameter
\* or variable in scope is written unchanged, `log` otherwise as
\* `lz_runtime_log`, the name of a function f of the program as `lz_fn_f`,
\* and any other name as it is.
C17_IdentifierRewriting ==
    cctl.phase = "emitted" =>
        cstmt.text =
            IF cg_scope_lookup(cx, cstmt.name) # NULL THEN cstmt.name
            ELSE IF cstmt.name = "log" THEN "lz_runtime_log"
            ELSE IF cg_find_function(cx, cstmt.name) # NULL THEN "lz_fn_" \o cstmt.name
            ELSE cstmt.name

-----------------------------------------------------------------------------
(* The compiler specification: main from read_file to the C compiler.  The   *)
(* front end is that of the front-end specification; after sema has          *)
(* accepted the program, codegen_emit opens the C file, cg_emit_program      *)
(* writes it, fclose closes it and cg_run_clang runs the C compiler.  Whether *)
(* fopen opens the file and whether the C compiler succeeds is up to the     *)
(* environment.                                                               *)

MainInit ==
    /\ src \in ScenarioSources
    /\ beyond \in [1 .. MaxBeyond -> FrontBeyondBytes]
    /\ lx = lexer_create
    /\ toks = <<>>
    /\ lstatus = "run"
    /\ lexerr = NoErr
    /\ decls = <<>>
    /\ sx = sema_context_init
    /\ sctl = [phase |-> "parse", err |-> NoErr, imports |-> 0]
    /\ sstmt = NULL
    /\ ftypes = {}
    /\ cx = cg_context_init
    /\ cctl = [phase |-> "front", file |-> "untouched", ran_clang |-> FALSE,
               ok |-> FALSE, released |-> {}]
    /\ cstmt = NULL

\* a codegen_emit that opens the C file before sema has checked the program
CodegenOpenUnchecked ==
    /\ sctl.phase = "sema"
    /\ cctl.phase = "front"
    /\ cctl' = [cctl EXCEPT !.phase = "open", !.file = "open"]
    /\ UNCHANGED <<cx, cstmt>>
    /\ UNCHANGED semavars
    /\ UNCHANGED lexvars

\* main calls codegen_emit, which opens the C file for writing; it returns
\* false when fopen fails
CodegenOpen ==
    /\ sctl.phase = "sema_done"
    /\ cctl.phase = "front"
    /\ \E opened \in BOOLEAN :
          cctl' = IF opened THEN [cctl EXCEPT !.phase = "open", !.file = "open"]
                  ELSE [cctl EXCEPT !.phase = "failed"]
    /\ UNCHANGED <<cx, cstmt>>
    /\ UNCHANGED semavars
    /\ UNCHANGED lexvars

\* cg_context_init and cg_emit_program
CodegenWrite ==
    /\ cctl.phase = "open"
    /\ cx' = cg_emit_program(cg_context_init, decls)
    /\ cctl' = [cctl EXCEPT !.phase = "written"]
    /\ UNCHANGED cstmt
    /\ UNCHANGED semavars
    /\ UNCHANGED lexvars

\* cg_context_destroy and fclose; codegen_emit returns false when
\* cg_emit_program has failed
CodegenClose ==
    /\ cctl.phase = "written"
    /\ cctl' = [cctl EXCEPT !.phase = IF cx.had_error THEN "failed" ELSE "closed",
                            !.file = "closed"]
    /\ UNCHANGED <<cx, cstmt>>
    /\ UNCHANGED semavars
    /\ UNCHANGED lexvars

\* cg_run_clang: the C compiler is run on the C file, and codegen_emit
\* returns what it returns
CodegenRunClang ==
    /\ cctl.phase = "closed"
    /\ \E compiled \in BOOLEAN :
          cctl' = [cctl EXCEPT !.phase = IF compiled THEN "done" ELSE "failed",
                               !.ran_clang = TRUE, !.ok = compiled]
    /\ UNCHANGED <<cx, cstmt>>
    /\ UNCHANGED semavars
    /\ UNCHANGED lexvars

\* codegen_emit has returned to main, which destroys the program and the
\* lexer, frees the source and returns 0, or 1 after "code generation failed"
MainReturn ==
    /\ cctl.phase \in {"done", "failed"}
    /\ cctl' = [cctl EXCEPT !.phase = "returned",
                            !.released = {"program", "lexer", "source"}]
    /\ UNCHANGED <<cx, cstmt>>
    /\ UNCHANGED semavars
    /\ UNCHANGED lexvars

MainNext ==
    \/ ParserFetch
    \/ ParserError
    \/ ParseProgram
    \/ SemaCheckProgram
    \/ CodegenOpen
    \/ CodegenWrite
    \/ CodegenClose
    \/ CodegenRunClang
    \/ MainReturn

SpecMain == MainInit /\ [][MainNext]_vars

-----------------------------------------------------------------------------
(* Claims about the order of the stages *)

\* the lexer, the parser or sema has ended the compilation with an error
FrontFailed == lstatus = "error" \/ sctl.phase \in {"parse_error", "sema_error"}

\* the C file holds the whole program that cg_emit_program writes
CompletelyWritten ==
    /\ cx.writer.pending = ""
    /\ cx.writer.file = cg_emit_program(cg_context_init, decls).writer.file

\* C18: when lexing, parsing or semantic analysis fails, no C output is
\* produced: the C file is opened for writing only after sema_check_program
\* has returned without an error, and the C compiler is run only after the
\* C file has been written completely and closed.
C18_OutputAfterSema ==
    /\ [](FrontFailed => cctl.file = "untouched" /\ ~cctl.ran_clang)
    /\ [](cctl.file # "untouched" => sctl.phase = "sema_done" /\ sctl.err = NoErr)
    /\ [][(cctl.file = "untouched" /\ cctl'.file # "untouched") =>
              (sctl.phase = "sema_done" /\ sx.err = NoErr /\ lstatus = "run")]_vars
    /\ [][(~cctl.ran_clang /\ cctl'.ran_clang) =>
              (cctl.file = "closed" /\ CompletelyWritten)]_vars

\* the C compiler has been run on the C file of a program that the front end
\* has accepted
C18_Witness ==
    /\ cctl.ran_clang
    /\ cctl.file = "closed"
    /\ sctl.phase = "sema_done"
    /\ Len(cx.writer.file) > 0

-----------------------------------------------------------------------------
(* The diagnostics as they are printed *)

\* what %d prints for a number
RECURSIVE Decimal(_)
Decimal(n) ==
    IF n < 10 THEN SubSeq("0123456789", n + 1, n + 1)
    ELSE Decimal(n \div 10) \o SubSeq("0123456789", (n % 10) + 1, (n % 10) + 1)

\* what fprintf prints for a format whose conversions are %d
RECURSIVE Formatted(_, _)
Formatted(format, args) ==
    IF format = "" THEN ""
    ELSE IF HasPrefix(format, "%d")
    THEN Decimal(Head(args)) \o Formatted(SubSeq(format, 3, Len(format)), Tail(args))
    ELSE SubSeq(format, 1, 1) \o Formatted(SubSeq(format, 2, Len(format)), args)

\* the line that lexer_next_token prints before exit(1)
lexer_diagnostic(err) == Formatted(err.msg, <<err.line, err.col>>)

\* the line that parser_error_at prints before exit(1)
parser_diagnostic(err) ==
    Formatted("[line %d:%d] Parse error: ", <<err.line, err.col>>) \o err.msg

\* the line that sema_error prints before exit(1)
sema_diagnostic(err) ==
    Formatted("[line %d:%d] Semantic error: ", <<err.line, err.col>>) \o err.msg

\* the line that cg_fail prints for a token
cg_diagnostic(err) ==
    Formatted("[line %d:%d] Codegen error: ", <<err.line, err.col>>) \o err.msg

\* the diagnostics that have ended the compilation
Diagnostics ==
    (IF lstatus = "error" THEN {lexer_diagnostic(lexerr)} ELSE {})
    \cup (IF sctl # NULL /\ sctl.phase = "parse_error"
          THEN {parser_diagnostic(sctl.err)} ELSE {})
    \cup (IF sctl # NULL /\ sctl.phase = "sema_error"
          THEN {sema_diagnostic(sctl.err)} ELSE {})
    \cup (IF cx # NULL /\ cx.had_error THEN {cg_diagnostic(cx.err)} ELSE {})

\* the most lines and columns that a diagnostic names
MaxLine == 8

MaxColumn == 40

\* the names a stage may go by
StageNames == {"Lexer", "Lexical", "Lex", "Parse", "Parser", "Syntax",
               "Semantic", "Sema", "Codegen"}

\* the text has the form `[line L:C] <Stage> error: <message>`
Located(text) ==
    \E line \in 1 .. MaxLine, column \in 1 .. MaxColumn, stage \in StageNames :
        HasPrefix(text, "[line " \o Decimal(line) \o ":" \o Decimal(column) \o "] "
                            \o stage \o " error: ")

\* C19: every diagnostic that ends the compilation, whichever stage prints
\* it, carries a source line and a column, in the form
\* `[line L:C] <Stage> error: <message>`.
C19_DiagnosticsLocated == \A text \in Diagnostics : Located(text)

-----------------------------------------------------------------------------
(* Claims about the memory of the compiler *)

\* what the compiler has allocated: read_file the source buffer and
\* lexer_create the lexer before the first token is asked for,
\* parse_program the program once parser_init has fetched its two tokens;
\* sema_check_program destroys its function table and its scope frames
\* before it returns, so that they remain only when sema_error has ended it
Allocated ==
    {"source", "lexer"}
    \cup (IF Len(toks) >= 2 THEN {"program"} ELSE {})
    \cup (IF sctl.phase = "sema_error" /\ Len(sx.functions) > 0
          THEN {"function table"} ELSE {})
    \cup (IF sctl.phase = "sema_error" /\ Len(sx.scopes) > 0
          THEN {"scope frames"} ELSE {})

\* the process has ended: with exit(1) in the lexer, in parser_error or in
\* sema_error, or with the return of main
ProcessEnded ==
    \/ lstatus = "error"
    \/ sctl.phase \in {"parse_error", "sema_error"}
    \/ cctl.phase = "returned"

\* C20: on every exit path of the compiler, termination by a lexical, parse
\* or semantic error included, everything it has allocated (the source
\* buffer, the lexer, the program with its nodes and strings, the scope
\* frames and the function table of sema) has been released before the
\* process ends.
C20_AllReleased == ProcessEnded => Allocated \ cctl.released = {}

-----------------------------------------------------------------------------
(* The stage specification: the compiler of the compiler specification on    *)
(* sources in which a line that the parser rejects may be followed by a line *)
(* that the lexer rejects.  Behind the buffer lie zero bytes.                *)

StageDecls == {"x: int = 1", "x = ", "x: int = 1 2"}

StageStmts == {"x", "!", "y ! z", "x = 2"}

StageSources ==
    {Scenario(indent, decl, stmt) :
        indent \in ScenarioIndents, decl \in StageDecls, stmt \in StageStmts}

StageInit ==
    /\ src \in StageSources
    /\ beyond = [i \in 1 .. MaxBeyond |-> NUL]
    /\ lx = lexer_create
    /\ toks = <<>>
    /\ lstatus = "run"
    /\ lexerr = NoErr
    /\ decls = <<>>
    /\ sx = sema_context_init
    /\ sctl = [phase |-> "parse", err |-> NoErr, imports |-> 0]
    /\ sstmt = NULL
    /\ ftypes = {}
    /\ cx = cg_context_init
    /\ cctl = [phase |-> "front", file |-> "untouched", ran_clang |-> FALSE,
               ok |-> FALSE, released |-> {}]
    /\ cstmt = NULL

SpecStages == StageInit /\ [][MainNext]_vars

-----------------------------------------------------------------------------
(* Claims about the order of the stages, continued *)

\* lexer_next_token, called from the state l of the lexer until it returns
\* EOF, ends in one of the errors of the lexer
RECURSIVE LexicalErrorFrom(_)
LexicalErrorFrom(l) ==
    LET after(r) ==
            IF r.err # NoErr THEN TRUE
            ELSE IF r.tok.type = "EOF" THEN FALSE
            ELSE LexicalErrorFrom(r.lx)
    IN  after(lexer_next_token(l))

\* the source has a lexical error somewhere
HasLexicalError == LexicalErrorFrom(lexer_create)

\* the lexer has read the source to its end
WholeSourceTokenised == lx.pos >= Len(src)

\* C21: each stage runs to completion before the next one begins: the parser
\* has a token only after the lexer has tokenised the whole source, sema
\* starts only after parse_program has returned, and codegen only after
\* sema_check_program has returned; hence for a source with a lexical error
\* anywhere the diagnostic is that lexical error, never a parse error.
C21_StagesRunToCompletion ==
    /\ sctl.phase = "parse_error" => (WholeSourceTokenised /\ ~HasLexicalError)
    /\ sctl.phase \in {"sema", "sema_error", "sema_done"} => WholeSourceTokenised
    /\ cctl.phase # "front" => sctl.phase = "sema_done"

-----------------------------------------------------------------------------
(* Claims about the tokens of a line start *)

\* the lexer is about to read the start of a logical line: a line of the
\* source that holds a character after its spaces and tabs
LogicalLineAhead ==
    /\ lstatus = "run"
    /\ lx.pending_dedents = 0
    /\ lx.at_line_start
    /\ lx.pos + LeadingWidth(lx.pos) < Len(src)
    /\ ByteAt(lx.pos + LeadingWidth(lx.pos)) # "\n"

\* the top of the indent stack
StackTop == lx.indent_stack[lx.indent_top + 1]

\* the entries of the indent stack that are greater than w
EntriesAbove(w) == {k \in 1 .. Len(lx.indent_stack) : lx.indent_stack[k] > w}

\* the entries of the indent stack that are not
EntriesUpTo(w) ==
    SubSeq(lx.indent_stack, 1, Len(lx.indent_stack) - Cardinality(EntriesAbove(w)))

\* the step returns one token of the type and reads up to position pos
ReturnsOne(type, pos) ==
    /\ lstatus' = "run"
    /\ Len(toks') = Len(toks) + 1
    /\ SubSeq(toks', 1, Len(toks)) = toks
    /\ toks'[Len(toks')].type = type
    /\ lx'.pos = pos

\* the first DEDENT of a line that closes blocks: the entries greater than
\* the width are popped, and one DEDENT for each of the others is pending
DedentStep ==
    (/\ LogicalLineAhead
     /\ LeadingWidth(lx.pos) < StackTop
     /\ TopAfterPopping(lx.indent_stack, LeadingWidth(lx.pos)) = LeadingWidth(lx.pos)) =>
        /\ ReturnsOne("DEDENT", lx.pos + LeadingWidth(lx.pos))
        /\ lx'.indent_stack = EntriesUpTo(LeadingWidth(lx.pos))
        /\ lx'.indent_top = Len(lx'.indent_stack) - 1
        /\ lx'.pending_dedents = Cardinality(EntriesAbove(LeadingWidth(lx.pos))) - 1

\* a pending DEDENT is returned before anything else is read
PendingStep ==
    (lstatus = "run" /\ lx.pending_dedents > 0) =>
        /\ ReturnsOne("DEDENT", lx.pos)
        /\ lx'.pending_dedents = lx.pending_dedents - 1
        /\ lx'.indent_stack = lx.indent_stack
        /\ lx'.at_line_start = lx.at_line_start

\* a line that is wider than the top opens one block
IndentStep ==
    (LogicalLineAhead /\ LeadingWidth(lx.pos) > StackTop) =>
        /\ ReturnsOne("INDENT", lx.pos + LeadingWidth(lx.pos))
        /\ lx'.indent_stack = Append(lx.indent_stack, LeadingWidth(lx.pos))
        /\ lx'.indent_top = lx.indent_top + 1
        /\ lx'.pending_dedents = 0
        /\ ~lx'.at_line_start

\* after the structural tokens of a logical line, and at once when the line
\* is as wide as the top, the next token is the first token of the line
ContentStep ==
    (\/ LogicalLineAhead /\ LeadingWidth(lx.pos) = StackTop
     \/ /\ lstatus = "run"
        /\ lx.pending_dedents = 0
        /\ ~lx.at_line_start
        /\ Len(toks) > 0
        /\ toks[Len(toks)].type \in {"INDENT", "DEDENT"}
        /\ lx.pos < Len(src)
        /\ ByteAt(lx.pos) \notin {"\n", " ", "\t"}) =>
        /\ lstatus' = "error" \/ Len(toks') = Len(toks) + 1
        /\ lstatus' # "error" => toks'[Len(toks')].type \notin {"INDENT", "DEDENT"}
        /\ lx'.indent_stack = lx.indent_stack
        /\ lx'.pending_dedents = 0

\* C22: a logical line whose width w is smaller than the top of the indent
\* stack and equal to a lower entry pops exactly the entries greater than w,
\* and consecutive calls return one DEDENT for each popped entry before any
\* other token of the line; a line whose width is greater than the top
\* pushes w and returns exactly one INDENT; a line whose width equals the
\* top returns no structural token.
C22_LineStartTokens ==
    [][DedentStep /\ PendingStep /\ IndentStep /\ ContentStep]_vars

\* a line has closed two blocks: two DEDENT tokens, then its identifier
C22_Witness ==
    /\ Len(toks) >= 5
    /\ toks[Len(toks) - 2].type = "DEDENT"
    /\ toks[Len(toks) - 1].type = "DEDENT"
    /\ toks[Len(toks)].type = "IDENT"
    /\ toks[Len(toks) - 3].type = "NEWLINE"
    /\ lx.indent_stack = <<0>>

-----------------------------------------------------------------------------
(* The ordering specification: sema_check_program on programs that may hold  *)
(* several violations: a struct of three fields, a function f and a second   *)
(* function, every field, header and statement on a line of its own.         *)

OrderFields(line) ==
    {StructField(name, type_name, Tok(line, 5)) :
        name \in {"a", "b"}, type_name \in {"int", "chan[int]"}}

OrderStmts(line) ==
    {ExprStmt(Identifier("y", Tok(line, 5))),
     ExprStmt(Call(Identifier("log", Tok(line, 5)),
                   <<LiteralOf("string", "a", FALSE, Tok(line, 9))>>, Tok(line, 8)))}

OrderPrograms ==
    {<<StructDecl("S", <<f1, f2, f3>>, Tok(1, 8)),
       FunctionWithBody("f", "null", <<>>, <<s1>>, Tok(6, 1)),
       FunctionWithBody(name, "null", <<>>, <<s2>>, Tok(9, 1))>> :
        f1 \in OrderFields(2), f2 \in OrderFields(3), f3 \in OrderFields(4),
        s1 \in OrderStmts(7), name \in {"f", "main"}, s2 \in OrderStmts(10)}

OrderInit ==
    /\ decls \in OrderPrograms
    /\ sx = sema_context_init
    /\ sctl = [phase |-> "sema", err |-> NoErr, imports |-> 0]
    /\ sstmt = NULL
    /\ ftypes = {}
    /\ LexIdle
    /\ CgIdle

SpecOrder == OrderInit /\ [][SemaCheckProgram]_vars

-----------------------------------------------------------------------------
(* Claims about the order of the diagnostics of sema *)

\* the lines of the program at which a rule is violated: a field whose name
\* an earlier field of the struct has, a field of a concurrency type, a
\* function whose name an earlier function has, a statement that reads a
\* name that is declared nowhere
ViolationLines ==
    UNION {IF decls[i].kind = "struct"
           THEN {decls[i].fields[j].tok.line :
                    j \in {k \in 1 .. Len(decls[i].fields) :
                              \/ \E e \in 1 .. k - 1 :
                                    decls[i].fields[e].name = decls[i].fields[k].name
                              \/ HoldsConcurrencyType(decls[i].fields[k].type_name)}}
           ELSE (IF \E e \in 1 .. i - 1 :
                       decls[e].kind = "function" /\ decls[e].name = decls[i].name
                 THEN {decls[i].tok.line} ELSE {})
                \cup {decls[i].body[j].tok.line :
                         j \in {k \in 1 .. Len(decls[i].body) :
                                   /\ decls[i].body[k].expr.kind = "identifier"
                                   /\ decls[i].body[k].expr.name = "y"}} :
           i \in 1 .. Len(decls)}

\* C23: of a program with several semantic violations, sema prints one
\* diagnostic, and it is for the violation that comes first in source order,
\* across the declarations, across the fields of a struct and across the
\* statements of a body.
C23_FirstViolationReported ==
    sctl.phase \in {"sema_done", "sema_error"} =>
        /\ (sctl.phase = "sema_done") <=> (ViolationLines = {})
        /\ sctl.phase = "sema_error" =>
              /\ sctl.err.line \in ViolationLines
              /\ \A line \in ViolationLines : sctl.err.line <= line

-----------------------------------------------------------------------------
(* The type-fragment specification: parser_collect_type, with `=` as its     *)
(* terminator, on the tokens that the lexer has returned for the rest of a   *)
(* line: up to MaxFragLen tokens, then EOF.                                  *)

MaxFragLen == 4

\* the lexeme of a token of the type
FragLexeme(type) ==
    CASE type = "IDENT" -> "t"
      [] type = "LBRACKET" -> "["
      [] type = "RBRACKET" -> "]"
      [] type = "COMMA" -> ","
      [] type = "INT" -> "1"
      [] type = "EQUAL" -> "="
      [] type = "NEWLINE" -> "\n"
      [] OTHER -> ""

FragTypes == {"IDENT", "LBRACKET", "RBRACKET", "COMMA", "INT", "EQUAL", "NEWLINE"}

\* the tokens of the types, one column each, and the EOF tokens behind them
FragTokens(types) ==
    [i \in 1 .. Len(types) + 3 |->
        IF i <= Len(types)
        THEN [type |-> types[i], lexeme |-> FragLexeme(types[i]),
              length |-> Len(FragLexeme(types[i])), line |-> 1, column |-> i + 1]
        ELSE [type |-> "EOF", lexeme |-> "", length |-> 0, line |-> 1,
              column |-> Len(types) + 1]]

FragInit ==
    /\ src = ""
    /\ beyond = <<>>
    /\ lx = NULL
    /\ toks \in {FragTokens(types) :
                    types \in UNION {[1 .. n -> FragTypes] : n \in 0 .. MaxFragLen}}
    /\ lstatus = "eof"
    /\ lexerr = NoErr
    /\ decls = <<>>
    /\ sx = NULL
    /\ sctl = [phase |-> "collect", status |-> "ok", err |-> NoErr, text |-> "",
               i |-> 1]
    /\ sstmt = NULL
    /\ ftypes = {}
    /\ CgIdle

\* parser_collect_type from the first token on
ParserCollectType ==
    /\ sctl.phase = "collect"
    /\ LET collected(r) ==
               sctl' = [phase |-> "collected", status |-> r.p.status, err |-> r.p.err,
                        text |-> r.out, i |-> r.p.i]
       IN  collected(parser_collect_type(parser_init, {"EQUAL"}))
    /\ UNCHANGED <<decls, sx, sstmt, ftypes>>
    /\ UNCHANGED lexvars
    /\ UNCHANGED cgvars

SpecFragment == FragInit /\ [][ParserCollectType]_vars

-----------------------------------------------------------------------------
(* Claims about type fragments *)

\* the bracket depth at which token i is met
DepthAt(i) ==
    Cardinality({j \in 1 .. i - 1 : toks[j].type = "LBRACKET"})
        - Cardinality({j \in 1 .. i - 1 : toks[j].type = "RBRACKET"})

\* the token that ends the fragment: the first terminator at depth 0, or EOF
FragmentEnd ==
    CHOOSE i \in 1 .. Len(toks) :
        /\ toks[i].type = "EOF" \/ (toks[i].type = "EQUAL" /\ DepthAt(i) = 0)
        /\ \A j \in 1 .. i - 1 :
              ~(toks[j].type = "EOF" \/ (toks[j].type = "EQUAL" /\ DepthAt(j) = 0))

\* the tokens before the end that a type fragment may not hold: those of
\* another type, and an `]` at depth 0
Offenders ==
    {i \in 1 .. FragmentEnd - 1 :
        toks[i].type \notin TypeTokens \/ (toks[i].type = "RBRACKET" /\ DepthAt(i) = 0)}

\* C24: while it collects a type fragment the parser accepts only IDENT,
\* `null`, `,`, `[`, `]` and `.`: any other token before the terminator, at
\* any bracket depth, is a parse error; an `]` at depth 0 is the error
\* "unmatched ']' in type"; a terminator ends the fragment only at depth 0.
C24_TypeFragmentTokens ==
    sctl.phase = "collected" =>
        /\ Offenders # {} =>
              /\ sctl.status = "error"
              /\ LET first == CHOOSE i \in Offenders : \A j \in Offenders : i <= j
                 IN  /\ sctl.err.col = toks[first].column
                     /\ toks[first].type = "RBRACKET" =>
                           sctl.err.msg = "unmatched ']' in type"
        /\ sctl.status = "ok" => sctl.i = FragmentEnd

-----------------------------------------------------------------------------
(* The lexer on string literals: every source up to MaxQuoteLen characters   *)
(* of QuoteAlphabet is tokenised by successive calls of lexer_next_token up  *)
(* to the first EOF.                                                         *)

\* the longest source this specification draws
MaxQuoteLen == 4

\* the quote, a letter and a line break
QuoteAlphabet == {"\"", "x", "\n"}

QuoteSources == UNION {StringsOver(QuoteAlphabet, n) : n \in 0 .. MaxQuoteLen}

QuoteInit ==
    /\ src \in QuoteSources
    /\ beyond \in [1 .. MaxBeyond -> {NUL, "x", "\""}]
    /\ lx = lexer_create
    /\ toks = <<>>
    /\ lstatus = "run"
    /\ lexerr = NoErr
    /\ SemaIdle
    /\ CgIdle

SpecQuotes == QuoteInit /\ [][LexNext]_vars

-----------------------------------------------------------------------------
(* Claims about string literals *)

\* where the literal opened at src[open] ends: its closing quote, or the end
\* of input
RECURSIVE CloseOf(_)
CloseOf(q) ==
    IF q >= Len(src) \/ ByteAt(q) = "\"" THEN q ELSE CloseOf(q + 1)

\* the string literals of src from position p on, in source order
RECURSIVE LiteralsFrom(_)
LiteralsFrom(p) ==
    IF p >= Len(src) THEN <<>>
    ELSE IF ByteAt(p) = "\""
    THEN <<[open |-> p, close |-> CloseOf(p + 1)]>> \o LiteralsFrom(CloseOf(p + 1) + 1)
    ELSE LiteralsFrom(p + 1)

\* the STRING tokens returned so far, in the order of their return
StringTokens == SelectSeq(toks, LAMBDA t : t.type = "STRING")

\* C25: the lexeme of the STRING token of every string literal, closed by a
\* quote or cut off by the end of input, starts right after the opening quote
\* and is as long as the text between the opening quote and the closing quote
\* or the end of input: it holds no quote and drops no character.
C25_StringLexeme ==
    \A k \in 1 .. Len(StringTokens) :
        /\ k <= Len(LiteralsFrom(0))
        /\ LET lit == LiteralsFrom(0)[k]
               inner == lit.close - lit.open - 1
           IN  /\ StringTokens[k].length = inner
               /\ StringTokens[k].lexeme = TextAt(lit.open + 1, inner)

-----------------------------------------------------------------------------
(* Claims about the end of the source buffer *)

\* a step in which lexer_next_token is called
LexerCalled == lx' # lx

\* the lexer has returned EOF
EofReturned == \E i \in 1 .. Len(toks) : toks[i].type = "EOF"

\* C26: in any sequence of calls of lexer_next_token, the calls that the
\* two-token buffer of the parser makes after a DEDENT or EOF at the end of
\* input included, the lexer reads no byte behind the terminating NUL of the
\* source buffer, and once it has returned EOF every later call returns EOF
\* without reading further.
C26_ReadsWithinBuffer ==
    [][LexerCalled =>
          /\ lx.pending_dedents = 0 => lx.pos <= Len(src)
          /\ EofReturned =>
                /\ lstatus' # "error"
                /\ Len(toks') = Len(toks) + 1
                /\ toks'[Len(toks')].type = "EOF"
                /\ lx'.pos = lx.pos]_vars

-----------------------------------------------------------------------------
(* Claims about blank lines *)

\* the lexer stands at the start of a line of the source that is empty or
\* holds spaces and tabs only
BlankLineAhead ==
    /\ lstatus = "run"
    /\ lx.at_line_start
    /\ lx.pending_dedents = 0
    /\ \E n \in 0 .. Len(src) :
          /\ lx.pos + n < Len(src)
          /\ ByteAt(lx.pos + n) = "\n"
          /\ \A k \in 0 .. n - 1 : ByteAt(lx.pos + k) \in {" ", "\t"}

\* C27: a line that is empty or holds only spaces and tabs leaves the indent
\* stack as it is and makes the lexer return no INDENT and no DEDENT, so a
\* blank line between two statements of an indented block does not close
\* the block.
C27_BlankLinesIgnored ==
    [][BlankLineAhead =>
          /\ lstatus' # "error"
          /\ lx'.indent_stack = lx.indent_stack
          /\ lx'.indent_top = lx.indent_top
          /\ lx'.pending_dedents = 0
          /\ toks' = Append(toks, toks'[Len(toks')])
          /\ toks'[Len(toks')].type \notin {"INDENT", "DEDENT"}]_vars

-----------------------------------------------------------------------------
(* The nesting specification: the lexer on sources whose lines are each one  *)
(* space deeper than the line before, as the lines of nested if statements   *)
(* are, up to a depth around the capacity of the indent stack.               *)

\* the number of entries of Lexer.indent_stack
INDENT_STACK_MAX == 128

\* how far beyond the capacity the deepest source nests
MaxOverNest == 1

\* n spaces
RECURSIVE Spaces(_)
Spaces(n) ==
    IF n = 0 THEN ""
    ELSE IF n % 2 = 1 THEN Spaces(n - 1) \o " "
    ELSE LET half(s) == s \o s IN half(Spaces(n \div 2))

\* the lines at the depths a .. b
RECURSIVE NestLines(_, _)
NestLines(a, b) ==
    IF a = b THEN Spaces(a) \o "x\n"
    ELSE NestLines(a, (a + b) \div 2) \o NestLines((a + b) \div 2 + 1, b)

\* the source that nests to depth n; its last line has no line break, so
\* that the blocks are closed one by one at the end of input
NestSource(n) == NestLines(0, n - 1) \o Spaces(n) \o "x"

NestDepths == (INDENT_STACK_MAX - 2) .. (INDENT_STACK_MAX + MaxOverNest)

NestInit ==
    /\ src \in {NestSource(n) : n \in NestDepths}
    /\ beyond = [i \in 1 .. MaxBeyond |-> NUL]
    /\ lx = lexer_create
    /\ toks = <<>>
    /\ lstatus = "run"
    /\ lexerr = NoErr
    /\ SemaIdle
    /\ CgIdle

\* the call pushes a width: `l->indent_stack[++l->indent_top] = indent`
Pushes(l) ==
    /\ l.pending_dedents = 0
    /\ l.at_line_start
    /\ count_indent(l).count > l.indent_stack[l.indent_top + 1]

\* the push writes behind the last entry of indent_stack
PushesBehindStack(l) == Pushes(l) /\ l.indent_top + 1 >= INDENT_STACK_MAX

\* a call of lexer_next_token that stays within indent_stack
NestNextToken ==
    /\ ~PushesBehindStack(lx)
    /\ LexNextToken

\* a call of lexer_next_token whose push writes indent_stack[INDENT_STACK_MAX]:
\* undefined behaviour.  The write may leave the fields of the lexer alone or
\* land in indent_top, the field that follows the array in struct Lexer;
\* nothing is known of the calls after it.
LexStackOverrun ==
    /\ lstatus = "run"
    /\ PushesBehindStack(lx)
    /\ LET r == count_indent([lx EXCEPT !.at_line_start = FALSE])
       IN  /\ \E top \in {lx.indent_top + 1, r.count} :
                 lx' = [r.lx EXCEPT !.indent_top = top]
           /\ toks' = Append(toks, make_token(r.lx, "INDENT", "", 0))
    /\ lstatus' = "undefined"
    /\ UNCHANGED <<src, beyond, lexerr>>
    /\ UNCHANGED semavars
    /\ UNCHANGED cgvars

NestNext == NestNextToken \/ LexStackOverrun

SpecNest == NestInit /\ [][NestNext]_vars

-----------------------------------------------------------------------------
(* Claims about the indent stack *)

\* C28: in every reachable state of the lexer the index of the indent stack
\* lies in 0 .. INDENT_STACK_MAX - 1, so that nothing is written outside
\* indent_stack however deep the input nests; the bottom entry is 0, the
\* entries increase strictly from bottom to top, and pending_dedents is
\* never negative.
C28_IndentStackBounded ==
    /\ lx.indent_top \in 0 .. INDENT_STACK_MAX - 1
    /\ lx.indent_stack[1] = 0
    /\ \A i \in 1 .. lx.indent_top : lx.indent_stack[i] < lx.indent_stack[i + 1]
    /\ lx.pending_dedents >= 0

-----------------------------------------------------------------------------
(* Claims about the scope stacks of sema and codegen *)

\* the names bound in each frame of a scope stack, from the outermost frame
FrameNames(scopes) ==
    [s \in 1 .. Len(scopes) |-> {scopes[s][i].name : i \in 1 .. Len(scopes[s])}]

\* C29: the scope stack of codegen mirrors that of sema: at every statement
\* of a program that sema accepts, the names bound in the frames of codegen
\* are the names bound in the frames of sema, so codegen never fails with
\* "assignment to unknown symbol" on such a program, and both stacks are
\* back to their depth at function entry when a function has been processed.
C29_ScopesMirrored ==
    /\ FrameNames(cx.scopes) = FrameNames(sx.scopes)
    /\ cx.err.msg # "assignment to unknown symbol"
    /\ cctl.phase \in {"decl", "done"} =>
          /\ Len(cx.scopes) = 0
          /\ Len(sx.scopes) = 0

\* an assignment in a nested block to a name of an outer frame has been
\* checked and emitted, and a function has been left before
C29_Witness ==
    /\ cctl.phase = "fn"
    /\ cctl.idx > 1
    /\ cstmt.node.kind = "assign"
    /\ Len(cx.scopes) >= 2
    /\ FrameNames(cx.scopes)[Len(cx.scopes)] = {}
    /\ \E s \in 1 .. Len(cx.scopes) - 1 : cstmt.node.target \in FrameNames(cx.scopes)[s]
    /\ ~cx.had_error

-----------------------------------------------------------------------------
(* Claims about the error flag of codegen *)

====
